---- MODULE Spec2Model ----
(***************************************************************************)
(* A model of the real-estate scraper: the listings store and its batch    *)
(* writer (scraper.py), the response cache shared by the detail workers    *)
(* (scraper.py), the search log and the recrawl decision                   *)
(* (scrape_logger.py, app.py), the size-interval expansion and the market  *)
(* scoring (market_analysis.py), the data flow of one crawl (scraper.py,   *)
(* main) and the scoring pass over the store (worth_it_score.py).          *)
(***************************************************************************)
EXTENDS Integers, Sequences, FiniteSets, TLC

VARIABLES
    \* ---- listings store (real_estate_listings.db, table listings) ----
    tableExists,   \* the listings table has been created
    listings,      \* committed rows of the table, in rowid order
    txn,           \* rows inserted by the open connection, not yet committed
    batch,         \* all_listings of the batch_upsert_listings call in progress
    bpos,          \* index of the next listing executemany binds
    wstate,        \* position of the writer: idle, executing, raised
    outcome,       \* how the last call ended: none, empty, committed, failed
    base,          \* committed rows when the call in progress started
    lastUpsert,    \* history: per URL, the listing of the most recent committed upsert
    \* ---- response cache and the threads that use it (scraper.py) ----
    now,            \* the clock datetime.now() reads, in hours
    response_cache, \* url -> (body, timestamp); the domain is the set of cached urls
    cache_lock,     \* the thread holding cache_lock, or "free"
    cpc,            \* per crawl (a call of main): its position
    cutoff_time,    \* per crawl: cutoff_time of its clear_expired_cache call
    expired_urls,   \* per crawl: expired_urls of its clear_expired_cache call
    clears,         \* per crawl: clear_expired_cache sweeps it has run
    fetched,        \* per crawl: pages it has fetched from the portal
    fetched_urls,   \* history: per crawl, the listing urls it has fetched from the portal
    queue,          \* per crawl: urls of filtered_listings not yet taken by a worker
    wpc,            \* per worker: its position in process_listing_details
    wurl,           \* per worker: the url it is processing
    wret,           \* per worker: what get_cached_response returned to it
    wtext,          \* per worker: response_text it fetched
    \* ---- search log (search_log.db) and the results handler (app.py) ----
    search_log,         \* rows of search_log: (filters as canonical text, searched_at)
    hpc,                \* position of the results handler
    request,            \* filters of the request being handled
    should_scrape_new,  \* first component of should_scrape's answer
    compatible_filters, \* second component of should_scrape's answer
    crawl_args,         \* arguments of the scraper.main call of the request
    \* ---- size-interval expansion called on its own (market_analysis.py) ----
    min_size,           \* argument min_size
    max_size,           \* argument max_size
    expanded,           \* the pair returned, <<>> before the call
    \* ---- market analysis and scoring (market_analysis.py) ----
    properties,         \* rows of listings, in rowid order, as the scoring queries read them
    subject,            \* the listing the call in hand is about
    mpc,                \* the call that has returned: ready, stats, insight, score, market
    market_stats,       \* what calculate_market_stats returned, in dict order
    insight,            \* what get_property_market_insight returned
    score,              \* what calculate_enhanced_worth_it_score returned
    price_diff_pct,     \* a deviation percentage (a fraction)
    market_score,       \* the market component computed for it (a fraction)
    \* ---- the data flow of one crawl (scraper.py, main) ----
    kpc,                     \* position of main
    reported_total,          \* the result total page 1 reports, 0 before it is read
    number_of_pages,         \* number_of_pages, 0 before the first page is read
    page_no,                 \* i of the page loop
    all_listings_to_process, \* summaries collected from the index pages
    existing_listings,       \* url -> price text, read when the crawl starts
    futures,                 \* one task per filtered listing, in submission order
    processed_listings,      \* results collected from the pool, in completion order
    collected_from,          \* history: the task each collected result came from
    abort_cause,             \* history: what raised out of main
    \* ---- the scoring pass (worth_it_score.py, main) ----
    row_urls,                \* url of each row of properties
    analysis                 \* score, insight, deviation and label columns of each row

storeVars == <<tableExists, listings, txn, batch, bpos, wstate, outcome, base, lastUpsert>>
cacheRest == <<response_cache, cache_lock, cpc, cutoff_time, expired_urls, clears,
               fetched, fetched_urls, queue, wpc, wurl, wret, wtext>>
cacheVars == <<now, cacheRest>>
logVars == <<search_log, hpc, request, should_scrape_new, compatible_filters, crawl_args>>
ivVars == <<min_size, max_size, expanded>>
scoreVars == <<properties, subject, mpc, market_stats, insight, score, price_diff_pct,
               market_score>>

crawlVars == <<kpc, reported_total, number_of_pages, page_no, all_listings_to_process, existing_listings,
               futures, processed_listings, collected_from, abort_cause>>

passVars == <<row_urls, analysis>>

vars == <<storeVars, cacheVars, logVars, ivVars, scoreVars, crawlVars, passVars>>

\* What the actions of one component leave alone.
notStore == <<cacheVars, logVars, ivVars, scoreVars, crawlVars, passVars>>
notCache == <<storeVars, logVars, ivVars, scoreVars, crawlVars, passVars>>
notLog == <<storeVars, cacheRest, ivVars, scoreVars, crawlVars, passVars>>
notIv == <<storeVars, cacheVars, logVars, scoreVars, crawlVars, passVars>>
notScore == <<storeVars, cacheVars, logVars, ivVars, crawlVars, passVars>>
notCrawl == <<txn, bpos, wstate, cacheVars, hpc, request, should_scrape_new,
              compatible_filters, crawl_args, ivVars, scoreVars, passVars>>
notPass == <<storeVars, cacheVars, logVars, ivVars, crawlVars>>

(***************************************************************************)
(* Bounds                                                                  *)
(***************************************************************************)
MaxRows == 4       \* rows the table may hold before the model stops writing
MaxBatch == 2      \* listings per batch
MaxTime == 3       \* hours the clock may advance
MaxQueue == 2      \* listings one crawl queues for its pool
MaxLog == 1        \* rows the search log may hold before the model stops crawling
MaxClock == 36     \* hours the clock may advance between and during requests
MaxProps == 4      \* rows of the store the scoring calls read
MaxDeviation == 25 \* largest deviation percentage, either way, of the market component
MaxPages == 2      \* index pages the portal reports for one search
MaxRecords == 3    \* rows of the search log a lookup may find
MaxTasks == 9     \* listings submitted to the pool when only the pool is followed
WaitHours == 12    \* hours one Wait step lets pass

(***************************************************************************)
(* Listings store                                                          *)
(***************************************************************************)
Urls == {"u1", "u2"}
PriceTexts == {"45 M", "50 M"}

\* A processed listing: the url and the summary price and size texts stand
\* for the columns of `keys`; every column is written the same way.
Listing == [url : Urls, price_huf : PriceTexts, size : {"50 m2"}]

NoListing == [url |-> "", price_huf |-> "", size |-> ""]

\* Non-empty batches of at most MaxBatch listings (a URL may occur twice).
Batches == UNION {[1..n -> Listing] : n \in 1..MaxBatch}

\* values = [listing_data.get(key, None) for key in keys]
Values(listing_data) ==
    [url |-> listing_data.url, price_huf |-> listing_data.price_huf,
     size |-> listing_data.size]

\* The listings table is created with TEXT columns only: no PRIMARY KEY and no
\* UNIQUE constraint, so INSERT OR REPLACE finds no conflicting row and inserts.
InsertOrReplace(rows, values) == Append(rows, values)

RECURSIVE ExecuteMany(_, _)
ExecuteMany(rows, all_values) ==
    IF all_values = <<>> THEN rows
    ELSE ExecuteMany(InsertOrReplace(rows, Head(all_values)), Tail(all_values))

\* all_values of batch_upsert_listings.
AllValues(all_listings) == [i \in 1..Len(all_listings) |-> Values(all_listings[i])]

\* (mutant) the table is cleared before the batch is written.
BatchUpsertCleared(rows, all_listings) == ExecuteMany(<<>>, AllValues(all_listings))

\* The table after a batch_upsert_listings call that commits.
BatchUpsert(rows, all_listings) == ExecuteMany(rows, AllValues(all_listings))

StoreStart ==
    /\ tableExists = FALSE
    /\ listings = <<>>
    /\ txn = <<>>
    /\ batch = <<>>
    /\ bpos = 1
    /\ wstate = "idle"
    /\ outcome = "none"
    /\ base = <<>>
    /\ lastUpsert = [u \in Urls |-> NoListing]

\* create_table: CREATE TABLE IF NOT EXISTS, then commit.
CreateTable ==
    /\ wstate = "idle"
    /\ ~tableExists
    /\ tableExists' = TRUE
    /\ UNCHANGED <<listings, txn, batch, bpos, wstate, outcome, base, lastUpsert>>
    /\ UNCHANGED notStore

\* batch_upsert_listings with an empty list returns at once.
UpsertEmpty ==
    /\ wstate = "idle"
    /\ tableExists
    /\ outcome # "empty"
    /\ outcome' = "empty"
    /\ batch' = <<>>
    /\ UNCHANGED <<tableExists, listings, txn, bpos, wstate, base, lastUpsert>>
    /\ UNCHANGED notStore

\* batch_upsert_listings(conn, all_listings): all_values is built and
\* executemany starts; the first INSERT opens the implicit transaction.
UpsertBegin(all_listings) ==
    /\ wstate = "idle"
    /\ tableExists
    /\ Len(listings) + Len(all_listings) <= MaxRows
    /\ wstate' = "executing"
    /\ batch' = all_listings
    /\ bpos' = 1
    /\ txn' = <<>>
    /\ base' = listings
    /\ outcome' = "none"
    /\ UNCHANGED <<tableExists, listings, lastUpsert>>
    /\ UNCHANGED notStore

\* (mutant) every row is committed as soon as it is inserted.
ExecuteRowCommitEach ==
    /\ wstate = "executing"
    /\ bpos <= Len(batch)
    /\ listings' = InsertOrReplace(listings, Values(batch[bpos]))
    /\ bpos' = bpos + 1
    /\ UNCHANGED <<tableExists, txn, batch, wstate, outcome, base, lastUpsert>>
    /\ UNCHANGED notStore

\* executemany binds and runs the statement for the next listing, inside the
\* open transaction.
ExecuteRow ==
    /\ wstate = "executing"
    /\ bpos <= Len(batch)
    /\ txn' = Append(txn, Values(batch[bpos]))
    /\ bpos' = bpos + 1
    /\ UNCHANGED <<tableExists, listings, batch, wstate, outcome, base, lastUpsert>>
    /\ UNCHANGED notStore

\* The statement for the next listing raises (sqlite3.Error): the exception
\* leaves batch_upsert_listings and main before conn.commit().
ExecuteFail ==
    /\ wstate = "executing"
    /\ bpos <= Len(batch)
    /\ wstate' = "raised"
    /\ UNCHANGED <<tableExists, listings, txn, batch, bpos, outcome, base, lastUpsert>>
    /\ UNCHANGED notStore

\* The connection of the aborted main is closed uncommitted: rollback.
Rollback ==
    /\ wstate = "raised"
    /\ txn' = <<>>
    /\ wstate' = "idle"
    /\ outcome' = "failed"
    /\ UNCHANGED <<tableExists, listings, batch, bpos, base, lastUpsert>>
    /\ UNCHANGED notStore

\* conn.commit() after executemany has run every listing.
\* History: the listing each URL was last upserted with, after all_listings.
Upserted(last, all_listings) ==
    [u \in Urls |->
        IF \E i \in 1..Len(all_listings) : all_listings[i].url = u
        THEN all_listings[CHOOSE i \in 1..Len(all_listings) :
                    /\ all_listings[i].url = u
                    /\ \A j \in (i+1)..Len(all_listings) : all_listings[j].url # u]
        ELSE last[u]]

Commit ==
    /\ wstate = "executing"
    /\ bpos > Len(batch)
    /\ listings' = ExecuteMany(listings, txn)
    /\ txn' = <<>>
    /\ wstate' = "idle"
    /\ outcome' = "committed"
    /\ lastUpsert' = Upserted(lastUpsert, batch)
    /\ UNCHANGED <<tableExists, batch, bpos, base>>
    /\ UNCHANGED notStore


(***************************************************************************)
(* Claims about the listings store                                         *)
(***************************************************************************)
RowsOf(u) == {i \in 1..Len(listings) : listings[i].url = u}

\* C1: after any sequence of batch upserts the table holds exactly one row per
\* upserted URL (none for a URL never upserted), and that row carries the
\* values of the most recent upsert of the URL.
C1_OneRowPerUrl ==
    \A u \in Urls :
        IF lastUpsert[u] = NoListing
        THEN RowsOf(u) = {}
        ELSE /\ Cardinality(RowsOf(u)) = 1
             /\ \A i \in RowsOf(u) : listings[i] = Values(lastUpsert[u])

\* C2: the upsert is idempotent: applying the batch just committed once more
\* leaves the stored rows as they are.
C2_Idempotent ==
    (wstate = "idle" /\ outcome = "committed") => BatchUpsert(listings, batch) = listings

\* C3: the batch write is all-or-nothing: while a batch is being written and
\* after it failed, the committed rows are those from before the call; after
\* it succeeded they are those rows with every listing of the batch applied.
C3_AllOrNothing ==
    /\ wstate \in {"executing", "raised"} => listings = base
    /\ outcome = "failed" => listings = base
    /\ outcome = "committed" => listings = BatchUpsert(base, batch)

\* A batch failed after its first listing had been inserted.
C3_Witness == outcome = "failed" /\ bpos > 1 /\ Len(batch) > 1

(***************************************************************************)
(* Response cache, the crawl's main thread and its detail workers          *)
(***************************************************************************)
CACHE_DURATION_HOURS == 2

\* Two calls of main may run at once (the front-end serves requests on
\* threads); each has its own ThreadPoolExecutor. Of the two worker threads,
\* each crawl has one when both crawls run, and the crawl c1 has both when it
\* runs alone (c2 is absent).
Crawls == {"c1", "c2"}
Workers == {"w1", "w2"}
Owner(w) == IF w = "w1" \/ cpc["c2"] = "absent" THEN "c1" ELSE "c2"

\* Page bodies the portal may serve for a detail url.
Bodies == {"b1", "b2"}

\* The same with a response that has no body.
BodiesOrEmpty == {"b1", ""}

\* if cached_response: None and the empty string are both falsy.
CacheHit(cached_response) == cached_response \notin {"None", ""}

\* What a worker holds of its get_cached_response call: the body returned
\* ("None" for None), with the timestamp of the entry the lookup found and the
\* clock it read (history, -1 when no entry was found).
NoReturn == [body |-> "None", timestamp |-> -1, at |-> -1]

\* filtered_listings: the urls queued for the pool, at most MaxQueue of them.
Queues == UNION {[1..n -> Urls] : n \in 0..MaxQueue}

CacheStart ==
    /\ now = 0
    /\ response_cache = <<>>
    /\ cache_lock = "free"
    /\ cpc = [c \in Crawls |-> "idle"]
    /\ cutoff_time = [c \in Crawls |-> 0]
    /\ expired_urls = [c \in Crawls |-> {}]
    /\ clears = [c \in Crawls |-> 0]
    /\ fetched = [c \in Crawls |-> 0]
    /\ fetched_urls = [c \in Crawls |-> {}]
    /\ queue = [c \in Crawls |-> <<>>]
    /\ wpc = [w \in Workers |-> "idle"]
    /\ wurl = [w \in Workers |-> "u1"]
    /\ wret = [w \in Workers |-> NoReturn]
    /\ wtext = [w \in Workers |-> "b1"]

\* One crawl runs alone: its sweep and its index pages are behind it, the
\* cache is empty, and its pool of two workers is about to take the queue.
DedupInit ==
    /\ now = 0
    /\ response_cache = <<>>
    /\ cache_lock = "free"
    /\ cpc = [c \in Crawls |-> IF c = "c1" THEN "pool" ELSE "absent"]
    /\ cutoff_time = [c \in Crawls |-> 0]
    /\ expired_urls = [c \in Crawls |-> {}]
    /\ clears = [c \in Crawls |-> IF c = "c1" THEN 1 ELSE 0]
    /\ fetched = [c \in Crawls |-> IF c = "c1" THEN 1 ELSE 0]
    /\ fetched_urls = [c \in Crawls |-> {}]
    /\ \E q \in Queues : queue = [c \in Crawls |-> IF c = "c1" THEN q ELSE <<>>]
    /\ wpc = [w \in Workers |-> "idle"]
    /\ wurl = [w \in Workers |-> "u1"]
    /\ wret = [w \in Workers |-> NoReturn]
    /\ wtext = [w \in Workers |-> "b1"]

\* Time passes.
Tick ==
    /\ now < MaxTime
    /\ now' = now + 1
    /\ UNCHANGED <<response_cache, cache_lock, cpc, cutoff_time, expired_urls, clears,
                   fetched, fetched_urls, queue,
                   wpc, wurl, wret, wtext>>
    /\ UNCHANGED notCache

\* main is called: connect, create_table, read existing_listings, get_session.
StartCrawl(c) ==
    /\ cpc[c] = "idle"
    /\ cpc' = [cpc EXCEPT ![c] = "started"]
    /\ UNCHANGED <<now, response_cache, cache_lock, cutoff_time, expired_urls, clears,
                   fetched, fetched_urls, queue,
                   wpc, wurl, wret, wtext>>
    /\ UNCHANGED notCache

\* clear_expired_cache: cutoff_time is read from the clock before the lock is taken.
ClearCutoff(c) ==
    /\ cpc[c] = "started"
    /\ cutoff_time' = [cutoff_time EXCEPT ![c] = now - CACHE_DURATION_HOURS]
    /\ cpc' = [cpc EXCEPT ![c] = "clear_wait"]
    /\ UNCHANGED <<now, response_cache, cache_lock, expired_urls, clears, fetched, fetched_urls, queue,
                   wpc, wurl, wret, wtext>>
    /\ UNCHANGED notCache

\* with cache_lock: (clear_expired_cache)
ClearAcquire(c) ==
    /\ cpc[c] = "clear_wait"
    /\ cache_lock = "free"
    /\ cache_lock' = c
    /\ cpc' = [cpc EXCEPT ![c] = "clear_in"]
    /\ UNCHANGED <<now, response_cache, cutoff_time, expired_urls, clears, fetched, fetched_urls, queue,
                   wpc, wurl, wret, wtext>>
    /\ UNCHANGED notCache

\* (mutant) entries exactly as old as the TTL are swept too.
ExpiredUrlsInclusive(cache, cutoff) == {url \in DOMAIN cache : cache[url].timestamp <= cutoff}

\* expired_urls of clear_expired_cache.
ExpiredUrls(cache, cutoff) == {url \in DOMAIN cache : cache[url].timestamp < cutoff}

\* The cache with the keys in gone deleted.
Without(cache, gone) == [url \in (DOMAIN cache) \ gone |-> cache[url]]

\* The body of clear_expired_cache under the lock: every expired url is deleted.
ClearSweep(c) ==
    /\ cpc[c] = "clear_in"
    /\ expired_urls' = [expired_urls EXCEPT ![c] = ExpiredUrls(response_cache, cutoff_time[c])]
    /\ response_cache' = Without(response_cache, ExpiredUrls(response_cache, cutoff_time[c]))
    /\ clears' = [clears EXCEPT ![c] = @ + 1]
    /\ cpc' = [cpc EXCEPT ![c] = "clear_swept"]
    /\ UNCHANGED <<now, cache_lock, cutoff_time, fetched, fetched_urls, queue, wpc, wurl, wret, wtext>>
    /\ UNCHANGED notCache

\* clear_expired_cache leaves the with block and returns.
ClearRelease(c) ==
    /\ cpc[c] = "clear_swept"
    /\ cache_lock' = "free"
    /\ cutoff_time' = [cutoff_time EXCEPT ![c] = 0]
    /\ expired_urls' = [expired_urls EXCEPT ![c] = {}]
    /\ cpc' = [cpc EXCEPT ![c] = "index"]
    /\ UNCHANGED <<now, response_cache, clears, fetched, fetched_urls, queue, wpc, wurl, wret, wtext>>
    /\ UNCHANGED notCache

\* main fetches the index pages and collects the listings to process.
FetchIndex(c, q) ==
    /\ cpc[c] = "index"
    /\ fetched' = [fetched EXCEPT ![c] = @ + 1]
    /\ UNCHANGED fetched_urls
    /\ queue' = [queue EXCEPT ![c] = q]
    /\ cpc' = [cpc EXCEPT ![c] = "pool"]
    /\ UNCHANGED <<now, response_cache, cache_lock, cutoff_time, expired_urls, clears, wpc,
                   wurl, wret, wtext>>
    /\ UNCHANGED notCache

\* The executor is left when every task has been taken and has ended.
PoolDone(c) ==
    /\ cpc[c] = "pool"
    /\ queue[c] = <<>>
    /\ \A w \in Workers : Owner(w) = c => wpc[w] = "idle"
    /\ cpc' = [cpc EXCEPT ![c] = "done"]
    /\ UNCHANGED <<now, response_cache, cache_lock, cutoff_time, expired_urls, clears,
                   fetched, fetched_urls, queue,
                   wpc, wurl, wret, wtext>>
    /\ UNCHANGED notCache

\* A worker of the crawl's pool takes the next submitted task.
TakeTask(w) ==
    /\ wpc[w] = "idle"
    /\ cpc[Owner(w)] = "pool"
    /\ queue[Owner(w)] # <<>>
    /\ wurl' = [wurl EXCEPT ![w] = Head(queue[Owner(w)])]
    /\ queue' = [queue EXCEPT ![Owner(w)] = Tail(@)]
    /\ wret' = [wret EXCEPT ![w] = NoReturn]
    /\ wpc' = [wpc EXCEPT ![w] = "get_wait"]
    /\ UNCHANGED <<now, response_cache, cache_lock, cpc, cutoff_time, expired_urls, clears,
                   fetched, fetched_urls, wtext>>
    /\ UNCHANGED notCache

\* with cache_lock: (get_cached_response)
GetAcquire(w) ==
    /\ wpc[w] = "get_wait"
    /\ cache_lock = "free"
    /\ cache_lock' = w
    /\ wpc' = [wpc EXCEPT ![w] = "get_in"]
    /\ UNCHANGED <<now, response_cache, cpc, cutoff_time, expired_urls, clears, fetched, fetched_urls, queue,
                   wurl, wret, wtext>>
    /\ UNCHANGED notCache

\* (mutant) the age of the entry is not checked.
FreshAlways(timestamp, t) == TRUE

\* datetime.now() - timestamp < timedelta(hours=CACHE_DURATION_HOURS)
Fresh(timestamp, t) == t - timestamp < CACHE_DURATION_HOURS

\* The body of get_cached_response under the lock: a fresh entry is returned,
\* an expired one is deleted.
GetLookup(w) ==
    /\ wpc[w] = "get_in"
    /\ IF wurl[w] \in DOMAIN response_cache
       THEN IF Fresh(response_cache[wurl[w]].timestamp, now)
            THEN /\ wret' = [wret EXCEPT ![w] =
                        [body |-> response_cache[wurl[w]].body,
                         timestamp |-> response_cache[wurl[w]].timestamp,
                         at |-> now]]
                 /\ UNCHANGED response_cache
            ELSE /\ response_cache' = Without(response_cache, {wurl[w]})
                 /\ wret' = [wret EXCEPT ![w] =
                        [body |-> "None",
                         timestamp |-> response_cache[wurl[w]].timestamp,
                         at |-> now]]
       ELSE /\ wret' = [wret EXCEPT ![w] = NoReturn]
            /\ UNCHANGED response_cache
    /\ wpc' = [wpc EXCEPT ![w] = "get_looked"]
    /\ UNCHANGED <<now, cache_lock, cpc, cutoff_time, expired_urls, clears, fetched, fetched_urls, queue,
                   wurl, wtext>>
    /\ UNCHANGED notCache

\* get_cached_response returns; get_listing_details parses the cached body if
\* there is one (the task ends) and fetches the page otherwise.
GetRelease(w) ==
    /\ wpc[w] = "get_looked"
    /\ cache_lock' = "free"
    /\ wpc' = [wpc EXCEPT ![w] = IF CacheHit(wret[w].body) THEN "idle" ELSE "fetch"]
    /\ wret' = [wret EXCEPT ![w] = NoReturn]
    /\ wurl' = [wurl EXCEPT ![w] = IF CacheHit(wret[w].body) THEN "u1" ELSE @]
    /\ UNCHANGED <<now, response_cache, cpc, cutoff_time, expired_urls, clears, fetched, fetched_urls,
                   queue, wtext>>
    /\ UNCHANGED notCache

\* res = session.get(url); response_text = res.text
Fetch(w, text) ==
    /\ wpc[w] = "fetch"
    /\ fetched' = [fetched EXCEPT ![Owner(w)] = @ + 1]
    /\ fetched_urls' = [fetched_urls EXCEPT ![Owner(w)] = @ \cup {wurl[w]}]
    /\ wtext' = [wtext EXCEPT ![w] = text]
    /\ wpc' = [wpc EXCEPT ![w] = "put_wait"]
    /\ UNCHANGED <<now, response_cache, cache_lock, cpc, cutoff_time, expired_urls, clears,
                   queue, wurl, wret>>
    /\ UNCHANGED notCache

\* session.get raises: get_listing_details returns {} and the task ends.
FetchFail(w) ==
    /\ wpc[w] = "fetch"
    /\ wpc' = [wpc EXCEPT ![w] = "idle"]
    /\ wurl' = [wurl EXCEPT ![w] = "u1"]
    /\ UNCHANGED <<now, response_cache, cache_lock, cpc, cutoff_time, expired_urls, clears,
                   fetched, fetched_urls, queue,
                   wret, wtext>>
    /\ UNCHANGED notCache

\* (mutant) cache_response enters without waiting for the lock.
PutAcquireNoLock(w) ==
    /\ wpc[w] = "put_wait"
    /\ cache_lock' = w
    /\ wpc' = [wpc EXCEPT ![w] = "put_in"]
    /\ UNCHANGED <<now, response_cache, cpc, cutoff_time, expired_urls, clears, fetched, fetched_urls, queue,
                   wurl, wret, wtext>>
    /\ UNCHANGED notCache

\* with cache_lock: (cache_response)
PutAcquire(w) ==
    /\ wpc[w] = "put_wait"
    /\ cache_lock = "free"
    /\ cache_lock' = w
    /\ wpc' = [wpc EXCEPT ![w] = "put_in"]
    /\ UNCHANGED <<now, response_cache, cpc, cutoff_time, expired_urls, clears, fetched, fetched_urls, queue,
                   wurl, wret, wtext>>
    /\ UNCHANGED notCache

\* response_cache[url] = (response_text, datetime.now()); the lock is released,
\* the page is parsed and the task ends.
PutStore(w) ==
    /\ wpc[w] = "put_in"
    /\ response_cache' = [url \in DOMAIN response_cache \cup {wurl[w]} |->
            IF url = wurl[w] THEN [body |-> wtext[w], timestamp |-> now]
            ELSE response_cache[url]]
    /\ cache_lock' = "free"
    /\ wpc' = [wpc EXCEPT ![w] = "idle"]
    /\ wurl' = [wurl EXCEPT ![w] = "u1"]
    /\ wtext' = [wtext EXCEPT ![w] = "b1"]
    /\ UNCHANGED <<now, cpc, cutoff_time, expired_urls, clears, fetched, fetched_urls, queue, wret>>
    /\ UNCHANGED notCache

(***************************************************************************)
(* Filter values                                                           *)
(***************************************************************************)
\* A value of a filter dict: None, a string (request args are strings) or a
\* number. Numbers are kept in half square metres, so that 30.5 is 61.
None == [t |-> "none", s |-> "", n |-> 0]
Str(text) == [t |-> "str", s |-> text, n |-> 0]
Num(x) == [t |-> "num", s |-> "", n |-> x]

\* Python truth of a value: None, "" and 0 are false.
Truthy(v) == (v.t = "str" /\ v.s # "") \/ (v.t = "num" /\ v.n # 0)

\* float(text) for the numeric texts the model uses, in halves.
FloatText ==
    ("0" :> 0) @@
    ("1" :> 2) @@
    ("20" :> 40) @@
    ("29.5" :> 59) @@
    ("30" :> 60) @@
    ("30.5" :> 61) @@
    ("31" :> 62) @@
    ("40" :> 80) @@
    ("50" :> 100) @@
    ("50.5" :> 101) @@
    ("51" :> 102) @@
    ("60" :> 120) @@
    ("70" :> 140) @@
    ("70.5" :> 141) @@
    ("71" :> 142) @@
    ("90" :> 180) @@
    ("120" :> 240) @@
    ("150" :> 300) @@
    ("200" :> 400) @@
    ("300" :> 600) @@
    ("500" :> 1000) @@
    ("501" :> 1002) @@
    ("600" :> 1200)

\* float(v) raises ValueError or TypeError unless CanFloat(v).
CanFloat(v) == v.t = "num" \/ (v.t = "str" /\ v.s \in DOMAIN FloatText)
Float(v) == IF v.t = "num" THEN v.n ELSE FloatText[v.s]

\* d.get(key)
Get(d, key) == IF key \in DOMAIN d THEN d[key] ELSE None

(***************************************************************************)
(* Size-interval expansion (market_analysis.py)                            *)
(***************************************************************************)
\* float('inf'): above every size of the model.
Infinity == 1000000

\* SIZE_INTERVALS, in square metres.
SIZE_INTERVALS ==
    << <<0, 30>>, <<31, 50>>, <<51, 70>>, <<71, 90>>, <<91, 120>>, <<121, 150>>,
       <<151, 200>>, <<201, 300>>, <<301, 500>>, <<501, Infinity>> >>

\* An interval bound in halves.
IntervalMin(i) == 2 * SIZE_INTERVALS[i][1]
IntervalMax(i) == IF SIZE_INTERVALS[i][2] = Infinity THEN Infinity ELSE 2 * SIZE_INTERVALS[i][2]

SetMin(S) == CHOOSE x \in S : \A y \in S : x <= y
SetMax(S) == CHOOSE x \in S : \A y \in S : x >= y

\* (mutant) an interval that only touches the requested range is left out.
OverlapsSearchStrict(i, lo, hi) == ~(IntervalMax(i) <= lo \/ IntervalMin(i) >= hi)

\* not (interval_max < min_size or interval_min > max_size)
OverlapsSearch(i, lo, hi) == ~(IntervalMax(i) < lo \/ IntervalMin(i) > hi)

\* (mutant) the requested range is returned as it is.
GetRequiredIntervalsUnexpanded(mn, mx) ==
    IF ~Truthy(mn) /\ ~Truthy(mx) THEN <<None, None>>
    ELSE <<Num(IF Truthy(mn) THEN Float(mn) ELSE 0), IF Truthy(mx) THEN Num(Float(mx)) ELSE None>>

\* get_required_intervals_for_search(min_size, max_size): the pair returned.
GetRequiredIntervalsForSearch(mn, mx) ==
    IF ~Truthy(mn) /\ ~Truthy(mx) THEN <<None, None>>
    ELSE LET lo == IF Truthy(mn) THEN Float(mn) ELSE 0
             hi == IF Truthy(mx) THEN Float(mx) ELSE Infinity
             required_intervals == {i \in DOMAIN SIZE_INTERVALS : OverlapsSearch(i, lo, hi)}
             expanded_min == SetMin({IntervalMin(i) : i \in required_intervals})
             expanded_max == SetMax({IntervalMax(i) : i \in required_intervals})
         IN  IF required_intervals = {} THEN <<Num(lo), Num(hi)>>
             ELSE <<Num(expanded_min),
                    IF expanded_max = Infinity THEN None ELSE Num(expanded_max)>>

\* Arguments the function is called with on its own: None, "" or a numeric text.
SizeArgs == {None, Str("")} \cup {Str(text) : text \in DOMAIN FloatText}

IvStart ==
    /\ min_size = None
    /\ max_size = None
    /\ expanded = <<>>

\* Any pair of arguments.
IvInit ==
    /\ min_size \in SizeArgs
    /\ max_size \in SizeArgs
    /\ expanded = <<>>

\* The call.
ExpandCall ==
    /\ expanded = <<>>
    /\ expanded' = GetRequiredIntervalsForSearch(min_size, max_size)
    /\ UNCHANGED <<min_size, max_size>>
    /\ UNCHANGED notIv

(***************************************************************************)
(* Search log and recrawl decision (scrape_logger.py), results handler     *)
(* (app.py)                                                                *)
(***************************************************************************)
HOURS_LIMIT == 24

\* Filters of a request, as results() reads them from request.args.
Types == {None, Str("lakas"), Str("haz")}
Locations == {None, Str("budapest05")}
MinPrices == {None, Str("20"), Str("30")}
SizeRanges == {<<None, None>>, <<Str("50"), Str("70")>>, <<Str("600"), None>>}

Requests ==
    {[type |-> ty, location |-> lo, min_price |-> pr, max_price |-> None,
      min_size |-> sz[1], max_size |-> sz[2], min_rooms |-> None, max_rooms |-> None,
      sort |-> None] : ty \in Types, lo \in Locations, pr \in MinPrices, sz \in SizeRanges}

\* backend_filters of results().
BackendFilters(filters) ==
    [jelleg |-> filters.type, ar_min |-> filters.min_price, ar_max |-> filters.max_price,
     elhelyezkedes |-> filters.location, meret_min |-> filters.min_size,
     meret_max |-> filters.max_size, szoba_min |-> filters.min_rooms,
     szoba_max |-> filters.max_rooms]

NoFilters ==
    [jelleg |-> None, ar_min |-> None, ar_max |-> None, elhelyezkedes |-> None,
     meret_min |-> None, meret_max |-> None, szoba_min |-> None, szoba_max |-> None]

NoRequest ==
    [type |-> None, location |-> None, min_price |-> None, max_price |-> None,
     min_size |-> None, max_size |-> None, min_rooms |-> None, max_rooms |-> None,
     sort |-> None]

\* The keys log_scrape is given, in the order sort_keys=True writes them.
SortedKeys ==
    <<"ar_max", "ar_min", "elhelyezkedes", "jelleg", "meret_max", "meret_min",
      "szoba_max", "szoba_min">>

\* json.dumps(filters, sort_keys=True, separators=(',', ':')): the key/value
\* pairs in key order.
JsonDumps(filters) ==
    LET present == SelectSeq(SortedKeys, LAMBDA k : k \in DOMAIN filters)
    IN  [i \in 1..Len(present) |-> <<present[i], filters[present[i]]>>]

\* json.loads(filters_str)
JsonLoads(filters_str) ==
    [key \in {filters_str[i][1] : i \in 1..Len(filters_str)} |->
        filters_str[CHOOSE i \in 1..Len(filters_str) : filters_str[i][1] = key][2]]

\* {k: v for k, v in filters.items() if k != "sort" and v}
SearchFilters(filters) ==
    [k \in {k \in DOMAIN filters : k # "sort" /\ Truthy(filters[k])} |-> filters[k]]

\* The keys is_subset_search compares as numbers.
NumericKeys == {"min_price", "max_price", "min_size", "max_size", "min_rooms", "max_rooms"}

\* key.startswith("min_")
StartsWithMin(key) == key \in {"min_price", "min_size", "min_rooms"}

\* (mutant) the values of categorical filters are not compared.
IsSubsetSearchAnyCategory(current_filters, existing_filters) ==
    /\ DOMAIN existing_filters # {}
    /\ \A key \in DOMAIN current_filters :
          LET current_value == current_filters[key]
              existing_value == Get(existing_filters, key)
          IN  \/ key = "sort"
              \/ ~Truthy(current_value)
              \/ ~Truthy(existing_value)
              \/ key \notin NumericKeys
              \/ ~(CanFloat(current_value) /\ CanFloat(existing_value))
              \/ IF StartsWithMin(key)
                 THEN Float(current_value) >= Float(existing_value)
                 ELSE Float(current_value) <= Float(existing_value)

\* is_subset_search(current_filters, existing_filters)
IsSubsetSearch(current_filters, existing_filters) ==
    /\ DOMAIN existing_filters # {}
    /\ \A key \in DOMAIN current_filters :
          LET current_value == current_filters[key]
              existing_value == Get(existing_filters, key)
          IN  \/ key = "sort"
              \/ ~Truthy(current_value)
              \/ ~Truthy(existing_value)
              \/ IF key \in NumericKeys
                 THEN \/ ~(CanFloat(current_value) /\ CanFloat(existing_value))
                      \/ IF StartsWithMin(key)
                         THEN Float(current_value) >= Float(existing_value)
                         ELSE Float(current_value) <= Float(existing_value)
                 ELSE current_value = existing_value

\* (mutant) every record is looked at, however old.
RecentSearchesAll(log, t) == 1..Len(log)

\* The rows the query of find_recent_compatible_search selects at time t.
RecentSearches(log, t) == {i \in 1..Len(log) : log[i].searched_at > t - HOURS_LIMIT}

\* find_recent_compatible_search: the dicts it may return (none: it returns
\* None). The rows are scanned newest first; rows with the same searched_at
\* come in an order the query does not fix.
FindRecentCompatibleSearch(log, filters, t) ==
    LET search_filters == SearchFilters(filters)
        matching == {i \in RecentSearches(log, t) :
                        IsSubsetSearch(search_filters, SearchFilters(JsonLoads(log[i].filters)))}
        first == {i \in matching : \A j \in matching : log[j].searched_at <= log[i].searched_at}
    IN  {JsonLoads(log[i].filters) : i \in first}

\* should_scrape: the answers it may give.
ShouldScrape(log, filters, t) ==
    LET found == FindRecentCompatibleSearch(log, filters, t)
    IN  IF found = {} THEN {[scrape |-> TRUE, compatible |-> NoFilters]}
        ELSE {[scrape |-> FALSE, compatible |-> f] : f \in found}

\* (mutant) scraper.main is called with the sizes as the user gave them.
CrawlArgsLiteral(filters) ==
    [jelleg |-> filters.type, ar_min |-> filters.min_price, ar_max |-> filters.max_price,
     elhelyezkedes |-> filters.location, meret_min |-> filters.min_size,
     meret_max |-> filters.max_size, szoba_min |-> filters.min_rooms,
     szoba_max |-> filters.max_rooms]

\* The arguments results() calls scraper.main with.
CrawlArgs(filters) ==
    LET sizes == IF Truthy(filters.min_size) \/ Truthy(filters.max_size)
                 THEN GetRequiredIntervalsForSearch(filters.min_size, filters.max_size)
                 ELSE <<filters.min_size, filters.max_size>>
    IN  [jelleg |-> filters.type, ar_min |-> filters.min_price, ar_max |-> filters.max_price,
         elhelyezkedes |-> filters.location, meret_min |-> sizes[1], meret_max |-> sizes[2],
         szoba_min |-> filters.min_rooms, szoba_max |-> filters.max_rooms]

LogStart ==
    /\ search_log = <<>>
    /\ hpc = "idle"
    /\ request = NoRequest
    /\ should_scrape_new = FALSE
    /\ compatible_filters = NoFilters
    /\ crawl_args = NoFilters

\* (mutant) scraper.main is called whatever should_scrape answers.
ResultsCrawlsAnyway(filters) ==
    /\ hpc = "idle"
    /\ \E answer \in ShouldScrape(search_log, BackendFilters(filters), now) :
          /\ request' = filters
          /\ should_scrape_new' = answer.scrape
          /\ compatible_filters' = answer.compatible
          /\ crawl_args' = CrawlArgs(filters)
          /\ hpc' = "crawl"
    /\ UNCHANGED <<search_log, now>>
    /\ UNCHANGED notLog

\* results() with from_search=true: should_scrape is asked; when a crawl is
\* needed scraper.main is called with the (expanded) arguments.
Results(filters) ==
    /\ hpc = "idle"
    /\ \E answer \in ShouldScrape(search_log, BackendFilters(filters), now) :
          /\ request' = filters
          /\ should_scrape_new' = answer.scrape
          /\ compatible_filters' = answer.compatible
          /\ crawl_args' = IF answer.scrape THEN CrawlArgs(filters) ELSE NoFilters
          /\ hpc' = IF answer.scrape THEN "crawl" ELSE "cached"
    /\ UNCHANGED <<search_log, now>>
    /\ UNCHANGED notLog

\* (mutant) the record appended holds the filters of the request.
CrawlLoggedUserFilters ==
    /\ hpc = "crawl"
    /\ Len(search_log) < MaxLog
    /\ search_log' = Append(search_log,
            [filters |-> JsonDumps(BackendFilters(request)), searched_at |-> now])
    /\ hpc' = "scraped"
    /\ UNCHANGED <<request, should_scrape_new, compatible_filters, crawl_args, now>>
    /\ UNCHANGED notLog

\* scraper.main reaches its end: log_scrape appends the filters it was called with.
CrawlLogged ==
    /\ hpc = "crawl"
    /\ Len(search_log) < MaxLog
    /\ search_log' = Append(search_log,
            [filters |-> JsonDumps(crawl_args), searched_at |-> now])
    /\ hpc' = "scraped"
    /\ UNCHANGED <<request, should_scrape_new, compatible_filters, crawl_args, now>>
    /\ UNCHANGED notLog

\* scraper.main raises before log_scrape: the request fails.
CrawlAborted ==
    /\ hpc = "crawl"
    /\ hpc' = "idle"
    /\ request' = NoRequest
    /\ should_scrape_new' = FALSE
    /\ crawl_args' = NoFilters
    /\ UNCHANGED <<search_log, compatible_filters, now>>
    /\ UNCHANGED notLog

\* The rows are queried and the page is rendered.
Respond ==
    /\ hpc \in {"cached", "scraped"}
    /\ hpc' = "idle"
    /\ request' = NoRequest
    /\ should_scrape_new' = FALSE
    /\ compatible_filters' = NoFilters
    /\ crawl_args' = NoFilters
    /\ UNCHANGED <<search_log, now>>
    /\ UNCHANGED notLog

\* Filters earlier crawls were logged with.
LoggedFilters ==
    { [NoFilters EXCEPT !.jelleg = Str("lakas")],
      [NoFilters EXCEPT !.jelleg = Str("lakas"), !.ar_min = Str("20")],
      [NoFilters EXCEPT !.jelleg = Str("haz")] }

\* When they were logged, in hours from the lookup: before the window, at its
\* edge, just inside it, an hour ago.
LoggedTimes == {-HOURS_LIMIT - 1, -HOURS_LIMIT, -HOURS_LIMIT + 1, -1}

\* Search logs a lookup may find: up to MaxRecords rows in the order they were
\* appended.
SearchLogs ==
    {log \in UNION {[1..n -> [filters : {JsonDumps(f) : f \in LoggedFilters},
                              searched_at : LoggedTimes]] : n \in 0..MaxRecords} :
        \A i \in 1..(Len(log) - 1) : log[i].searched_at <= log[i + 1].searched_at}

\* Requests that give at most a type.
LookupRequests ==
    {filters \in Requests :
        /\ filters.location = None /\ filters.min_price = None
        /\ filters.min_size = None /\ filters.max_size = None}

\* A request arrives while the log holds records of earlier crawls.
LookupInit ==
    /\ search_log \in SearchLogs
    /\ hpc = "idle"
    /\ request = NoRequest
    /\ should_scrape_new = FALSE
    /\ compatible_filters = NoFilters
    /\ crawl_args = NoFilters

\* Time passes between requests and while a crawl runs.
Wait ==
    /\ hpc \in {"idle", "crawl"}
    /\ now + WaitHours <= MaxClock
    /\ now' = now + WaitHours
    /\ UNCHANGED logVars
    /\ UNCHANGED notLog

(***************************************************************************)
(* Claims about the recrawl decision                                       *)
(***************************************************************************)
CategoricalKeys == {"jelleg", "elhelyezkedes"}
MinKeys == {"ar_min", "meret_min", "szoba_min"}
MaxKeys == {"ar_max", "meret_max", "szoba_max"}

\* new is a narrowing of the historical filters h: every field h constrains is
\* constrained by new too, with the same categorical value, a minimum that is
\* not lower and a maximum that is not higher.
Narrowing(new, h) ==
    /\ \A k \in CategoricalKeys : Truthy(h[k]) => new[k] = h[k]
    /\ \A k \in MinKeys : Truthy(h[k]) =>
            /\ Truthy(new[k]) /\ CanFloat(new[k]) /\ CanFloat(h[k])
            /\ Float(new[k]) >= Float(h[k])
    /\ \A k \in MaxKeys : Truthy(h[k]) =>
            /\ Truthy(new[k]) /\ CanFloat(new[k]) /\ CanFloat(h[k])
            /\ Float(new[k]) <= Float(h[k])

\* The filters of row i of the search log.
Logged(i) == JsonLoads(search_log[i].filters)

\* The handler has asked should_scrape and the log is still as it was asked.
Decided == hpc \in {"crawl", "cached"}

\* C4: when a record inside the lookback window has matching categorical
\* fields and bounds that enclose those of the new filters (fields absent from
\* the record being unconstrained), should_scrape answers 'no crawl needed'
\* with the filters of a record of the window.
C4_ContainedNeedsNoCrawl ==
    (Decided /\ \E i \in RecentSearches(search_log, now) :
                    Narrowing(BackendFilters(request), Logged(i)))
        => /\ ~should_scrape_new
           /\ \E i \in RecentSearches(search_log, now) : compatible_filters = Logged(i)

\* C5: whenever should_scrape answers 'no crawl needed' with record H, the
\* new filters are a narrowing of H; new filters that leave unconstrained a
\* field H constrains are never answered from H.
C5_AnsweredOnlyIfNarrowing ==
    hpc = "cached" => Narrowing(BackendFilters(request), compatible_filters)

\* The record was logged inside the 24 hours before the lookup.
InWindow(i) == search_log[i].searched_at > now - 24

\* is_subset_search accepts the record for the request.
Satisfies(i) ==
    IsSubsetSearch(SearchFilters(BackendFilters(request)), SearchFilters(Logged(i)))

\* C27: find_recent_compatible_search only matches records logged within the
\* last 24 hours, so an older record never suppresses a crawl, and it returns
\* the filters of the newest record of the window that satisfies containment.
C27_NewestInWindow ==
    Decided =>
        IF should_scrape_new
        THEN \A i \in 1..Len(search_log) : InWindow(i) => ~Satisfies(i)
        ELSE \E i \in 1..Len(search_log) :
                /\ InWindow(i)
                /\ Satisfies(i)
                /\ compatible_filters = Logged(i)
                /\ \A j \in 1..Len(search_log) :
                      InWindow(j) /\ Satisfies(j)
                          => search_log[j].searched_at <= search_log[i].searched_at

\* Three records satisfy the request: one older than the window, and two of
\* the window with different filters, of which the newer is returned.
C27_Witness ==
    /\ hpc = "cached"
    /\ Len(search_log) = 3
    /\ \A i \in 1..3 : Satisfies(i)
    /\ ~InWindow(1) /\ InWindow(2)
    /\ search_log[2].searched_at < search_log[3].searched_at
    /\ Logged(2) # Logged(3)
    /\ compatible_filters = Logged(3)

\* C31: a search repeated with the same filters within 24 hours of a crawl
\* that was completed for those filters is answered from the store: the
\* lookup matches the record that crawl appended and no crawl is started.
C31_RepeatedSearchNotCrawled ==
    (/\ Decided
     /\ \E i \in 1..Len(search_log) : InWindow(i) /\ Logged(i) = CrawlArgs(request))
        => ~should_scrape_new

\* C32: while a search that should_scrape answered 'no crawl needed' is
\* handled, from the answer to the response, scraper.main is not called and
\* nothing is written: the search log, the store with its normalized fields
\* and scores, and the response cache with its fetch counts stay as they are.
C32_NoCrawlChangesNothing ==
    [][(\/ hpc = "idle" /\ hpc' # "idle" /\ ~should_scrape_new'
        \/ hpc # "idle" /\ ~should_scrape_new)
          => /\ hpc' \in {"cached", "idle"}
             /\ UNCHANGED <<search_log, storeVars, response_cache, fetched, fetched_urls,
                            crawlVars, passVars>>]_vars

\* A search is being answered from the store on the strength of a record.
C32_Witness ==
    /\ hpc = "cached"
    /\ ~should_scrape_new
    /\ Len(search_log) = 1
    /\ compatible_filters = Logged(1)
    /\ Truthy(request.type)

\* The two filter sets differ in a categorical field, a field only one of
\* them has included.
DiffersCategorical(new, h) ==
    \E k \in CategoricalKeys :
        \/ Truthy(new[k]) # Truthy(h[k])
        \/ Truthy(new[k]) /\ Truthy(h[k]) /\ new[k] # h[k]

\* Both filter sets give a categorical field, with different values.
DiffersWhereBothGiven(new, h) ==
    \E k \in CategoricalKeys : Truthy(new[k]) /\ Truthy(h[k]) /\ new[k] # h[k]

\* C6 (as claimed): a record that differs from the new filters in a
\* categorical field, a field only one side has included, is not accepted, and
\* 'no crawl needed' is never answered from one.
C6_AnyCategoricalDifference ==
    Decided =>
        /\ \A i \in 1..Len(search_log) :
              DiffersCategorical(BackendFilters(request), Logged(i)) =>
                  ~IsSubsetSearch(SearchFilters(BackendFilters(request)),
                                  SearchFilters(Logged(i)))
        /\ hpc = "cached" => ~DiffersCategorical(BackendFilters(request), compatible_filters)

\* C6 (amended): a record whose type or location differs from the one the new
\* filters give, both giving one, is not accepted; 'no crawl needed' is only
\* answered from a record of the window that does not differ so, hence
\* 'crawl needed' when every record of the window does.
C6_DifferentCategoryNeedsCrawl ==
    Decided =>
        /\ \A i \in 1..Len(search_log) :
              DiffersWhereBothGiven(BackendFilters(request), Logged(i)) =>
                  ~IsSubsetSearch(SearchFilters(BackendFilters(request)),
                                  SearchFilters(Logged(i)))
        /\ hpc = "cached" =>
              \E i \in RecentSearches(search_log, now) :
                  /\ compatible_filters = Logged(i)
                  /\ ~DiffersWhereBothGiven(BackendFilters(request), Logged(i))
        /\ (\A i \in RecentSearches(search_log, now) :
                DiffersWhereBothGiven(BackendFilters(request), Logged(i)))
              => should_scrape_new

\* A crawl was found needed with a record in the window that differs from the
\* new filters in the type only.
C6_Witness ==
    /\ hpc = "crawl"
    /\ \E i \in RecentSearches(search_log, now) :
          /\ DiffersWhereBothGiven(BackendFilters(request), Logged(i))
          /\ \A k \in DOMAIN Logged(i) \ {"jelleg"} : Logged(i)[k] = BackendFilters(request)[k]

\* The request asks for sizes 50 to 70 and the log holds no record.
FiftyToSeventyOnEmptyLog ==
    /\ Decided
    /\ search_log = <<>>
    /\ request.min_size = Str("50")
    /\ request.max_size = Str("70")

\* C10 (as claimed): for sizes 50 to 70 and no prior record a crawl is needed
\* and the crawl range is exactly the interval (51, 70).
C10_CrawlRange51To70 ==
    FiftyToSeventyOnEmptyLog =>
        /\ should_scrape_new
        /\ crawl_args.meret_min = Num(2 * 51)
        /\ crawl_args.meret_max = Num(2 * 70)

\* C10 (amended): for sizes 50 to 70 and no prior record a crawl is needed and
\* the crawl range is (31, 70), the union of the intervals (31, 50) and
\* (51, 70), since 50 lies in (31, 50).
C10_CrawlRange31To70 ==
    FiftyToSeventyOnEmptyLog =>
        /\ should_scrape_new
        /\ crawl_args.meret_min = Num(2 * 31)
        /\ crawl_args.meret_max = Num(2 * 70)

\* Such a request is being crawled for.
C10_Witness == FiftyToSeventyOnEmptyLog /\ hpc = "crawl"

\* The request being handled gives a size bound.
SizeGiven == Truthy(request.min_size) \/ Truthy(request.max_size)

\* The record the crawl of the request being handled has appended.
Appended == Logged(Len(search_log))

\* The expanded range of the request being handled.
ExpandedRange == GetRequiredIntervalsForSearch(request.min_size, request.max_size)

\* C11: when the search gives a size range and a crawl is required, the size
\* range the crawl is called with and the size range of the record the crawl
\* appends are both the expanded range.
C11_ExpandedCrawledAndLogged ==
    /\ (hpc \in {"crawl", "scraped"} /\ SizeGiven) =>
            <<crawl_args.meret_min, crawl_args.meret_max>> = ExpandedRange
    /\ (hpc = "scraped" /\ SizeGiven) =>
            <<Appended.meret_min, Appended.meret_max>> = ExpandedRange

\* The crawl for sizes 50 to 70 has appended a record with sizes 31 to 70.
C11_Witness ==
    /\ hpc = "scraped"
    /\ request.min_size = Str("50")
    /\ request.max_size = Str("70")
    /\ Appended.meret_min = Num(2 * 31)
    /\ Appended.meret_max = Num(2 * 70)

\* C12 (as claimed): the record appended after the crawl holds the original
\* filters of the user, the literal size bounds included.
C12_RecordHoldsUserFilters ==
    hpc = "scraped" => Appended = BackendFilters(request)

\* C12 (amended): the record appended after the crawl holds the filters of the
\* user for type, location, prices and rooms, and the expanded range for the
\* size bounds; it is the original filters when no size bound was given.
C12_RecordHoldsCrawlFilters ==
    hpc = "scraped" =>
        /\ \A k \in DOMAIN BackendFilters(request) \ {"meret_min", "meret_max"} :
              Appended[k] = BackendFilters(request)[k]
        /\ SizeGiven => <<Appended.meret_min, Appended.meret_max>> = ExpandedRange
        /\ ~SizeGiven => Appended = BackendFilters(request)

\* A crawl for apartments from 30 M with sizes from 600 has appended its record.
C12_Witness ==
    /\ hpc = "scraped"
    /\ request.type = Str("lakas")
    /\ request.min_price = Str("30")
    /\ request.min_size = Str("600")
    /\ Appended.ar_min = Str("30")
    /\ Appended.meret_min = Num(2 * 501)
    /\ Appended.meret_max = None

(***************************************************************************)
(* Claims about the size-interval expansion                                *)
(***************************************************************************)
\* The requested range and the range returned, an absent bound being 0 below
\* and unbounded above.
ReqLo == IF Truthy(min_size) THEN Float(min_size) ELSE 0
ReqHi == IF Truthy(max_size) THEN Float(max_size) ELSE Infinity
OutLo == IF expanded[1] = None THEN 0 ELSE expanded[1].n
OutHi == IF expanded[2] = None THEN Infinity ELSE expanded[2].n

\* The fixed intervals the requested range has a point in common with.
Overlapped == {i \in DOMAIN SIZE_INTERVALS : IntervalMin(i) <= ReqHi /\ IntervalMax(i) >= ReqLo}

\* The range returned contains the requested one and is the union of the
\* overlapped intervals, which follow one another without a gap.
ContainsAndIsUnion ==
    /\ OutLo <= ReqLo
    /\ OutHi >= ReqHi
    /\ Overlapped # {}
    /\ \A i \in DOMAIN SIZE_INTERVALS :
          (\E j, k \in Overlapped : j <= i /\ i <= k) => i \in Overlapped
    /\ OutLo = SetMin({IntervalMin(i) : i \in Overlapped})
    /\ OutHi = SetMax({IntervalMax(i) : i \in Overlapped})

\* C9 (as claimed): for every requested range the range returned contains it
\* and is the union of exactly the fixed intervals it overlaps.
C9_ExpandedContainsRequested ==
    (expanded # <<>> /\ ReqLo <= ReqHi) => ContainsAndIsUnion

\* A bound is a whole number of square metres (or absent).
Whole(v) == ~Truthy(v) \/ (CanFloat(v) /\ Float(v) % 2 = 0)

\* C9 (amended): for every requested range whose bounds are whole numbers
\* with min <= max the range returned contains it and is the union of exactly
\* the fixed intervals it overlaps.
C9_WholeRangeExpandedToUnion ==
    (expanded # <<>> /\ ReqLo <= ReqHi /\ Whole(min_size) /\ Whole(max_size))
        => ContainsAndIsUnion

\* 40 to 60 was widened to 31 to 70.
C9_Witness ==
    /\ min_size = Str("40")
    /\ max_size = Str("60")
    /\ expanded = <<Num(2 * 31), Num(2 * 70)>>

(***************************************************************************)
(* Claims about the response cache                                         *)
(***************************************************************************)
\* C7: in every interleaving of the cache operations, get_cached_response
\* never returns a body whose age, at the clock it read, exceeds the TTL, and
\* an expired entry it finds is removed from the cache.
C7_NeverReturnsExpired ==
    \A w \in Workers :
        /\ wret[w].body # "None" =>
                wret[w].at - wret[w].timestamp <= CACHE_DURATION_HOURS
        /\ (wpc[w] = "get_looked" /\ wret[w].body = "None") =>
                wurl[w] \notin DOMAIN response_cache

\* A lookup found an expired entry, removed it and returned None.
C7_Witness ==
    \E w \in Workers :
        /\ wpc[w] = "get_looked"
        /\ wret[w].body = "None"
        /\ wret[w].timestamp >= 0
        /\ wret[w].at - wret[w].timestamp >= CACHE_DURATION_HOURS

\* C8: clear_expired_cache runs exactly once per crawl, before the crawl
\* fetches any page; when its sweep is over no entry older than the TTL (at
\* the clock the call read) is in the cache, and the sweep leaves every entry
\* that is not older than the TTL in place, unchanged.
C8_ClearOncePerCrawl ==
    /\ [](\A c \in Crawls :
            /\ clears[c] <= 1
            /\ fetched[c] > 0 => (clears[c] = 1 /\ cpc[c] \in {"index", "pool", "done"})
            /\ cpc[c] \in {"index", "pool", "done"} => clears[c] = 1
            /\ cpc[c] = "clear_swept" =>
                  \A url \in DOMAIN response_cache :
                      response_cache[url].timestamp >= cutoff_time[c])
    /\ [][\A c \in Crawls :
            (cpc[c] = "clear_in" /\ cpc'[c] = "clear_swept") =>
                \A url \in DOMAIN response_cache :
                    response_cache[url].timestamp >= cutoff_time[c] =>
                        /\ url \in DOMAIN response_cache'
                        /\ response_cache'[url] = response_cache[url]]_vars

\* A sweep removed an expired entry and kept another one.
C8_Witness ==
    \E c \in Crawls :
        /\ cpc[c] = "clear_swept"
        /\ expired_urls[c] # {}
        /\ response_cache # <<>>

\* The threads that are inside a with cache_lock block.
InsideCache ==
    {w \in Workers : wpc[w] \in {"get_in", "get_looked", "put_in"}}
        \cup {c \in Crawls : cpc[c] \in {"clear_in", "clear_swept"}}

\* C29: in every interleaving of get_cached_response, cache_response and
\* clear_expired_cache at most one thread is inside the cache, and it holds the
\* lock; the cache changes only under the lock, and an entry is created or
\* replaced only as a whole, by the body and the clock of one cache_response.
C29_CacheAccessExclusive ==
    /\ [](/\ Cardinality(InsideCache) <= 1
          /\ \A p \in InsideCache : cache_lock = p
          /\ InsideCache = {} => cache_lock = "free")
    /\ [][/\ response_cache' # response_cache => cache_lock \in InsideCache
          /\ \A url \in DOMAIN response_cache' :
                (url \notin DOMAIN response_cache \/ response_cache'[url] # response_cache[url])
                    => \E w \in Workers :
                          /\ wpc[w] = "put_in"
                          /\ cache_lock = w
                          /\ wurl[w] = url
                          /\ response_cache'[url] = [body |-> wtext[w], timestamp |-> now]]_vars

\* Two workers fetched the same url with different bodies: one is storing its
\* body over an entry of the url while the other waits for the lock.
C29_Witness ==
    \E w, v \in Workers :
        /\ wpc[w] = "put_in"
        /\ wpc[v] = "put_wait"
        /\ wurl[w] = wurl[v]
        /\ wtext[w] # wtext[v]

\* C30: within one crawl a worker fetches a listing url from the portal only
\* if the crawl has not fetched that url before, also when the url is queued
\* twice and its two tasks run at once; and no worker fetches a url while the
\* cache holds a fresh entry of it, whatever the body of the entry.
C30_FetchedOncePerCrawl ==
    [][\A w \in Workers :
          (wpc[w] = "fetch" /\ wpc'[w] = "put_wait") =>
              /\ wurl[w] \notin fetched_urls[Owner(w)]
              /\ ~(/\ wurl[w] \in DOMAIN response_cache
                   /\ Fresh(response_cache[wurl[w]].timestamp, now))]_vars

(***************************************************************************)
(* Market segments and statistics (market_analysis.py)                     *)
(***************************************************************************)
\* Exact fractions <<numerator, denominator>>, denominator positive, in lowest
\* terms: the quotients the code computes in floating point.
RECURSIVE Gcd(_, _)
Gcd(a, b) == IF b = 0 THEN a ELSE Gcd(b, a % b)

Abs(x) == IF x < 0 THEN -x ELSE x

Rat(n, d) == LET g == Gcd(Abs(n), d) IN <<n \div g, d \div g>>

RInt(n) == <<n, 1>>
RAdd(a, b) == Rat(a[1] * b[2] + b[1] * a[2], a[2] * b[2])
RSub(a, b) == Rat(a[1] * b[2] - b[1] * a[2], a[2] * b[2])
RMul(a, b) == Rat(a[1] * b[1], a[2] * b[2])
\* a / b for b > 0
RDiv(a, b) == Rat(a[1] * b[2], a[2] * b[1])
RLe(a, b) == a[1] * b[2] <= b[1] * a[2]
RLt(a, b) == a[1] * b[2] < b[1] * a[2]

RECURSIVE RSum(_)
RSum(xs) == IF xs = <<>> THEN RInt(0) ELSE RAdd(Head(xs), RSum(Tail(xs)))

\* sorted(xs)
RECURSIVE RSorted(_)
RSorted(xs) ==
    IF xs = <<>> THEN <<>>
    ELSE LET rest == RSorted(Tail(xs))
             below == SelectSeq(rest, LAMBDA y : RLe(y, Head(xs)))
             above == SelectSeq(rest, LAMBDA y : ~RLe(y, Head(xs)))
         IN  below \o <<Head(xs)>> \o above

\* The members of a set of numbers in ascending order.
RECURSIVE Ascending(_)
Ascending(S) == IF S = {} THEN <<>> ELSE <<SetMin(S)>> \o Ascending(S \ {SetMin(S)})

\* Locations (the text of .head-address) and lokacio.split(',')[0].
SplitAtComma ==
    ("Budapest V. kerület, Belváros" :> "Budapest V. kerület") @@
    ("Budapest V. kerület, Lipótváros" :> "Budapest V. kerület") @@
    ("Budapest VI. kerület, Terézváros" :> "Budapest VI. kerület")

District(lokacio) == SplitAtComma[lokacio]

\* A row as the scoring queries select it: lokáció, Jelleg, Állapot (texts or
\* NULL), Méret_clean in half square metres, price_huf_clean in thousand Ft,
\* rooms_clean (numbers or NULL).
Row(lokacio, jelleg, allapot, meret, price, rooms) ==
    [lokacio |-> lokacio, jelleg |-> jelleg, allapot |-> allapot, meret |-> meret,
     price |-> price, rooms |-> rooms]

\* Rows a store may hold: apartments of 60 m2 in two conditions, two parts of
\* one district and another district, apartments of 50 m2, a house, a row
\* without condition.
StoreRows ==
    { Row(Str("Budapest V. kerület, Belváros"), Str("lakás"), Str("Jó"), Num(120), Num(27000), Num(2)),
      Row(Str("Budapest V. kerület, Belváros"), Str("lakás"), Str("Átlagos"), Num(120), Num(24000), Num(2)),
      Row(Str("Budapest V. kerület, Lipótváros"), Str("lakás"), Str("Jó"), Num(120), Num(33000), Num(3)),
      Row(Str("Budapest VI. kerület, Terézváros"), Str("lakás"), Str("Jó"), Num(120), Num(36000), Num(2)),
      Row(Str("Budapest V. kerület, Belváros"), Str("lakás"), Str("Jó"), Num(100), Num(5000), Num(2)),
      Row(Str("Budapest V. kerület, Belváros"), Str("lakás"), Str("Jó"), Num(100), Num(10000), Num(2)),
      Row(Str("Budapest V. kerület, Belváros"), Str("ház"), Str("Jó"), Num(600), Num(90000), Num(5)),
      Row(Str("Budapest V. kerület, Belváros"), Str("lakás"), None, Num(120), Num(27000), Num(2)) }

\* Six apartments of one segment at 450 thousand Ft per m2.
SegmentOfSix ==
    [i \in 1..6 |-> Row(Str("Budapest V. kerület, Belváros"), Str("lakás"), Str("Jó"),
                        Num(120), Num(27000), Num(2))]

\* Store contents: up to MaxProps rows in any order.
StoreContents == UNION {[1..n -> StoreRows] : n \in 0..MaxProps}

\* The rows with a condition that are houses or apartments of 60 m2.
ScoredRows == {row \in StoreRows : row.allapot # None /\ row.meret.n >= 120}

\* Store contents the scored listings are compared with: up to MaxProps such
\* rows in any order, or the segment of six.
ScoredStores == UNION {[1..n -> ScoredRows] : n \in 0..MaxProps} \cup {SegmentOfSix}

\* Listings the calls are made for: an apartment of 60 m2 at 30 M Ft, the same
\* at a price of 1000 Ft, a house, an apartment with no room count, an
\* apartment of 30.5 m2.
Subjects ==
    { Row(Str("Budapest V. kerület, Belváros"), Str("lakás"), Str("Jó"), Num(120), Num(30000), Num(2)),
      Row(Str("Budapest V. kerület, Belváros"), Str("lakás"), Str("Jó"), Num(120), Num(1), Num(2)),
      Row(Str("Budapest V. kerület, Belváros"), Str("ház"), Str("Jó"), Num(600), Num(90000), Num(5)),
      Row(Str("Budapest V. kerület, Belváros"), Str("lakás"), Str("Jó"), Num(120), Num(30000), None),
      Row(Str("Budapest V. kerület, Belváros"), Str("lakás"), Str("Jó"), Num(61), Num(30000), Num(1)) }

NoSubject == Row(None, None, None, None, None, None)

\* get_size_interval(size): the index of the interval that contains the size,
\* 0 for None.
GetSizeInterval(size) ==
    IF ~Truthy(size) THEN 0
    ELSE LET containing == {i \in DOMAIN SIZE_INTERVALS :
                                IntervalMin(i) <= size.n /\ size.n <= IntervalMax(i)}
         IN  IF containing = {} THEN 0 ELSE SetMin(containing)

\* The WHERE clause of calculate_market_stats.
CompleteData(row) ==
    /\ row.lokacio # None /\ row.jelleg # None /\ row.allapot # None
    /\ row.meret # None /\ row.price # None
    /\ row.meret.n > 0
    /\ row.price.n > 0

\* price / meret
PricePerSqm(row) == Rat(2 * row.price.n, row.meret.n)

SegmentKey(row) == <<row.lokacio, row.jelleg, row.allapot, GetSizeInterval(row.meret)>>

\* The rows that enter market_segments.
Grouped(props) ==
    {i \in 1..Len(props) : CompleteData(props[i]) /\ GetSizeInterval(props[i].meret) # 0}

SegmentMembers(props, segment_key) ==
    {i \in Grouped(props) : SegmentKey(props[i]) = segment_key}

\* statistics.median
Median(xs) ==
    LET sorted == RSorted(xs)
        n == Len(xs)
    IN  IF n % 2 = 1 THEN sorted[(n + 1) \div 2]
        ELSE RDiv(RAdd(sorted[n \div 2], sorted[n \div 2 + 1]), RInt(2))

\* statistics.stdev squared: the sample variance.
Variance(xs) ==
    LET mean == RDiv(RSum(xs), RInt(Len(xs)))
        squares == [k \in 1..Len(xs) |-> RMul(RSub(xs[k], mean), RSub(xs[k], mean))]
    IN  RDiv(RSum(squares), RInt(Len(xs) - 1))

\* (mutant) a segment of one listing gets statistics too.
EnoughPropertiesOne(props, segment_key) == Cardinality(SegmentMembers(props, segment_key)) >= 1

\* not (len(properties) < 2)
EnoughProperties(props, segment_key) == Cardinality(SegmentMembers(props, segment_key)) >= 2

\* market_stats[segment_key]
SegmentStats(props, segment_key) ==
    LET members == Ascending(SegmentMembers(props, segment_key))
        prices_per_sqm == [k \in 1..Len(members) |-> PricePerSqm(props[members[k]])]
        sorted == RSorted(prices_per_sqm)
    IN  [key |-> segment_key,
         count |-> Len(members),
         avg_price_per_sqm |-> RDiv(RSum(prices_per_sqm), RInt(Len(members))),
         median_price_per_sqm |-> Median(prices_per_sqm),
         min_price_per_sqm |-> sorted[1],
         max_price_per_sqm |-> sorted[Len(sorted)],
         variance |-> IF Len(members) > 1 THEN Variance(prices_per_sqm) ELSE RInt(0)]

\* (mutant) no segment is dropped for having too few listings.
CalculateMarketStatsEverySegment(props) ==
    LET firsts == {i \in Grouped(props) :
                      \A j \in SegmentMembers(props, SegmentKey(props[i])) : i <= j}
        order == Ascending(firsts)
    IN  [k \in 1..Len(order) |-> SegmentStats(props, SegmentKey(props[order[k]]))]

\* calculate_market_stats(): the statistics of the segments in the order the
\* dict holds them, the order in which the first row of each segment was read.
CalculateMarketStats(props) ==
    LET firsts == {i \in Grouped(props) :
                      /\ \A j \in SegmentMembers(props, SegmentKey(props[i])) : i <= j
                      /\ EnoughProperties(props, SegmentKey(props[i]))}
        order == Ascending(firsts)
    IN  [k \in 1..Len(order) |-> SegmentStats(props, SegmentKey(props[order[k]]))]

NoInsight == [found |-> FALSE]

(***************************************************************************)
(* Market insight and score (market_analysis.py)                           *)
(***************************************************************************)
\* The value label of a deviation percentage.
ValueAssessment(pct) ==
    IF RLe(pct, RInt(-15)) THEN "Kiváló ár-érték arány"
    ELSE IF RLe(pct, RInt(-5)) THEN "Jó ár-érték arány"
    ELSE IF RLe(pct, RInt(5)) THEN "Piaci átlag"
    ELSE IF RLe(pct, RInt(15)) THEN "Piaci átlag felett"
    ELSE "Drága"

\* fallback_matches: for every segment of market_stats, in dict order, the
\* kind of match it is, "" for none.
FallbackKind(row, segment_key) ==
    IF row.lokacio = segment_key[1] /\ row.jelleg = segment_key[2]
       /\ GetSizeInterval(row.meret) = segment_key[4]
    THEN "same_location_type"
    ELSE IF row.jelleg = segment_key[2] /\ row.allapot = segment_key[3]
            /\ GetSizeInterval(row.meret) = segment_key[4]
            /\ District(row.lokacio.s) = District(segment_key[1].s)
    THEN "same_district_type"
    ELSE ""

\* fallback_matches[0]: the position of the first match among the segments.
FirstFallback(stats, row) ==
    SetMin({k \in 1..Len(stats) : FallbackKind(row, stats[k].key) # ""})

\* get_property_market_insight(lokacio, jelleg, allapot, meret, price)
GetPropertyMarketInsight(props, row) ==
    IF \/ ~(Truthy(row.lokacio) /\ Truthy(row.jelleg) /\ Truthy(row.allapot)
            /\ Truthy(row.meret) /\ Truthy(row.price))
       \/ row.meret.n <= 0
       \/ row.price.n <= 0
       \/ GetSizeInterval(row.meret) = 0
    THEN NoInsight
    ELSE LET Compared(stats) ==
                 LET exact == {k \in 1..Len(stats) : stats[k].key = SegmentKey(row)}
                     fallback_matches ==
                         {k \in 1..Len(stats) : FallbackKind(row, stats[k].key) # ""}
                     used == IF exact # {} THEN SetMin(exact) ELSE FirstFallback(stats, row)
                     property_price_per_sqm == PricePerSqm(row)
                     market_avg == stats[used].avg_price_per_sqm
                     pct == RMul(RDiv(RSub(property_price_per_sqm, market_avg), market_avg),
                                 RInt(100))
                 IN  IF exact = {} /\ fallback_matches = {} THEN NoInsight
                     ELSE [found |-> TRUE,
                           property_price_per_sqm |-> property_price_per_sqm,
                           market_avg_price_per_sqm |-> market_avg,
                           price_diff_pct |-> pct,
                           market_sample_count |-> stats[used].count,
                           comparison_type |-> IF exact # {} THEN "exact"
                                               ELSE FallbackKind(row, stats[used].key),
                           value_assessment |-> ValueAssessment(pct),
                           size_interval |-> GetSizeInterval(row.meret)]
         IN  Compared(CalculateMarketStats(props))

\* (mutant) the digits after the last one kept are cut off.
RoundDown(x, scale) == (x[1] * scale) \div x[2]

\* round(x, digits) with scale = 10 ^ digits: the nearest multiple of
\* 1 / scale (the even one of two equally near), counted in units of 1 / scale.
Round(x, scale) ==
    LET n == x[1] * scale
        d == x[2]
        low == n \div d
    IN  IF 2 * (n - low * d) < d THEN low
        ELSE IF 2 * (n - low * d) > d THEN low + 1
        ELSE IF low % 2 = 0 THEN low ELSE low + 1

\* (mutant) the market component falls from 30 at 0 to 10 at +20.
MarketScoreConnected(pct) ==
    IF RLe(pct, RInt(-20)) THEN RInt(50)
    ELSE IF RLe(pct, RInt(20)) THEN RSub(RInt(30), pct)
    ELSE RInt(0)

\* market_score of calculate_enhanced_worth_it_score.
MarketScore(pct) ==
    IF RLe(pct, RInt(-20)) THEN RInt(50)
    ELSE IF RLe(pct, RInt(-10))
         THEN RAdd(RInt(40), RMul(RDiv(RSub(RInt(-10), pct), RInt(10)), RInt(10)))
    ELSE IF RLe(pct, RInt(0))
         THEN RAdd(RInt(30), RMul(RDiv(RSub(RInt(0), pct), RInt(10)), RInt(10)))
    ELSE IF RLe(pct, RInt(10))
         THEN RSub(RInt(20), RMul(RDiv(pct, RInt(10)), RInt(10)))
    ELSE IF RLe(pct, RInt(20))
         THEN RSub(RInt(10), RMul(RDiv(RSub(pct, RInt(10)), RInt(10)), RInt(10)))
    ELSE RInt(0)

\* 'ház' in jelleg.lower(), 'lakás' in jelleg.lower()
IsHouse(jelleg) == Truthy(jelleg) /\ jelleg.s \in {"ház"}
IsApartment(jelleg) == Truthy(jelleg) /\ jelleg.s \in {"lakás"}

\* room_score
RoomScore(row) ==
    IF ~(Truthy(row.rooms) /\ Truthy(row.meret)) THEN 10
    ELSE LET room_density == Rat(row.rooms.n * 100 * 2, row.meret.n)
         IN  IF IsHouse(row.jelleg)
             THEN (IF RLe(Rat(25, 10), room_density) THEN 25
                   ELSE IF RLe(RInt(2), room_density) THEN 22
                   ELSE IF RLe(Rat(15, 10), room_density) THEN 18
                   ELSE IF RLe(Rat(12, 10), room_density) THEN 15
                   ELSE IF RLe(RInt(1), room_density) THEN 12
                   ELSE 8)
                  + (IF row.meret.n >= 2 * 300 THEN 3 ELSE 0)
             ELSE IF RLe(RInt(4), room_density) THEN 25
                  ELSE IF RLe(RInt(3), room_density) THEN 20
                  ELSE IF RLe(Rat(25, 10), room_density) THEN 15
                  ELSE IF RLe(RInt(2), room_density) THEN 10
                  ELSE 5

\* confidence_score
ConfidenceScore(sample_count) ==
    IF sample_count >= 10 THEN 15
    ELSE IF sample_count >= 5 THEN 12
    ELSE IF sample_count >= 3 THEN 8
    ELSE IF sample_count >= 2 THEN 5
    ELSE 2

\* condition_scores.get(allapot, 5)
ConditionScore(allapot) ==
    LET condition_scores ==
            ("Kiváló" :> 10) @@ ("Jó" :> 8) @@ ("Átlagos" :> 5) @@ ("Felújítandó" :> 2)
            @@ ("Rossz" :> 0)
    IN  IF allapot.t = "str" /\ allapot.s \in DOMAIN condition_scores
        THEN condition_scores[allapot.s] ELSE 5

\* size_bonus
SizeBonus(row) ==
    IF IsHouse(row.jelleg) /\ row.meret.n > 2 * 400 THEN 3
    ELSE IF IsApartment(row.jelleg) /\ row.meret.n > 2 * 150 THEN 2
    ELSE 0

\* The fallback of calculate_enhanced_worth_it_score, in hundredths:
\* round((rooms * 1000) / (price / meret), 2), None on ZeroDivisionError or
\* TypeError. The price is in thousand Ft.
SimpleScore(row) ==
    IF row.rooms = None \/ row.price = None \/ row.meret = None THEN None
    ELSE IF row.meret.n = 0 \/ row.price.n = 0 THEN None
    ELSE Num(Round(RDiv(RInt(row.rooms.n * 1000), Rat(row.price.n * 1000 * 2, row.meret.n)), 100))

\* calculate_enhanced_worth_it_score(lokacio, jelleg, allapot, meret, price,
\* rooms), in hundredths of a point.
CalculateEnhancedWorthItScore(props, row) ==
    LET Scored(ins) ==
            IF ~ins.found THEN SimpleScore(row)
            ELSE LET total_score ==
                         RAdd(MarketScore(ins.price_diff_pct),
                              RInt(RoomScore(row) + ConfidenceScore(ins.market_sample_count)
                                   + ConditionScore(row.allapot) + SizeBonus(row)))
                     capped == IF RLe(total_score, RInt(100)) THEN total_score ELSE RInt(100)
                 IN  Num(10 * Round(capped, 10))
    IN  Scored(GetPropertyMarketInsight(props, row))

ScoreStart ==
    /\ properties = <<>>
    /\ subject = NoSubject
    /\ mpc = "ready"
    /\ market_stats = <<>>
    /\ insight = NoInsight
    /\ score = None
    /\ price_diff_pct = RInt(0)
    /\ market_score = RInt(0)

\* Any store content.
StatsInit ==
    /\ properties \in StoreContents
    /\ subject = NoSubject
    /\ mpc = "ready"
    /\ market_stats = <<>>
    /\ insight = NoInsight
    /\ score = None
    /\ price_diff_pct = RInt(0)
    /\ market_score = RInt(0)

\* Any store content and any listing.
ScoreInit ==
    /\ properties \in ScoredStores
    /\ subject \in Subjects
    /\ mpc = "ready"
    /\ market_stats = <<>>
    /\ insight = NoInsight
    /\ score = None
    /\ price_diff_pct = RInt(0)
    /\ market_score = RInt(0)

\* A call of calculate_market_stats.
MarketStats ==
    /\ mpc = "ready"
    /\ market_stats' = CalculateMarketStats(properties)
    /\ mpc' = "stats"
    /\ UNCHANGED <<properties, subject, insight, score, price_diff_pct, market_score>>
    /\ UNCHANGED notScore

\* A call of get_property_market_insight for the subject.
Insight ==
    /\ mpc = "ready"
    /\ insight' = GetPropertyMarketInsight(properties, subject)
    /\ mpc' = "insight"
    /\ UNCHANGED <<properties, subject, market_stats, score, price_diff_pct, market_score>>
    /\ UNCHANGED notScore

\* A call of calculate_enhanced_worth_it_score for the subject; the insight it
\* asks for is kept.
Score ==
    /\ mpc = "ready"
    /\ insight' = GetPropertyMarketInsight(properties, subject)
    /\ score' = CalculateEnhancedWorthItScore(properties, subject)
    /\ mpc' = "score"
    /\ UNCHANGED <<properties, subject, market_stats, price_diff_pct, market_score>>
    /\ UNCHANGED notScore

\* Any deviation percentage, in steps of a tenth.
MarketInit ==
    /\ properties = <<>>
    /\ subject = NoSubject
    /\ mpc = "ready"
    /\ market_stats = <<>>
    /\ insight = NoInsight
    /\ score = None
    /\ price_diff_pct \in {Rat(t, 10) : t \in (-10 * MaxDeviation)..(10 * MaxDeviation)}
    /\ market_score = RInt(0)

\* The market component is computed for the deviation.
MarketComponent ==
    /\ mpc = "ready"
    /\ market_score' = MarketScore(price_diff_pct)
    /\ mpc' = "market"
    /\ UNCHANGED <<properties, subject, market_stats, insight, score, price_diff_pct>>
    /\ UNCHANGED notScore

(***************************************************************************)
(* Claims about the segment statistics                                     *)
(***************************************************************************)
\* The row has a location, a type and a condition, those of the key, a
\* positive price and a positive size inside the size interval of the key.
FallsUnder(row, segment_key) ==
    /\ row.lokacio # None /\ row.lokacio = segment_key[1]
    /\ row.jelleg # None /\ row.jelleg = segment_key[2]
    /\ row.allapot # None /\ row.allapot = segment_key[3]
    /\ row.price # None /\ row.price.n > 0
    /\ row.meret # None /\ row.meret.n > 0
    /\ IntervalMin(segment_key[4]) <= row.meret.n
    /\ row.meret.n <= IntervalMax(segment_key[4])

\* The rows of the store that fall under the key.
Under(segment_key) == {i \in 1..Len(properties) : FallsUnder(properties[i], segment_key)}

\* Every key the rows of the store can give.
SegmentKeys ==
    {<<l, j, a, iv>> : l \in {properties[i].lokacio : i \in 1..Len(properties)},
                       j \in {properties[i].jelleg : i \in 1..Len(properties)},
                       a \in {properties[i].allapot : i \in 1..Len(properties)},
                       iv \in DOMAIN SIZE_INTERVALS}

\* The price-per-area values of the rows under the key.
ValuesUnder(segment_key) ==
    LET rows == Ascending(Under(segment_key))
    IN  [k \in 1..Len(rows) |-> PricePerSqm(properties[rows[k]])]

\* The statistics are those of the values xs.
StatisticsOf(stats, xs) ==
    /\ stats.count = Len(xs)
    /\ RMul(stats.avg_price_per_sqm, RInt(Len(xs))) = RSum(xs)
    /\ \E k \in 1..Len(xs) : xs[k] = stats.min_price_per_sqm
    /\ \A k \in 1..Len(xs) : RLe(stats.min_price_per_sqm, xs[k])
    /\ \E k \in 1..Len(xs) : xs[k] = stats.max_price_per_sqm
    /\ \A k \in 1..Len(xs) : RLe(xs[k], stats.max_price_per_sqm)
    /\ 2 * Cardinality({k \in 1..Len(xs) : RLe(xs[k], stats.median_price_per_sqm)}) >= Len(xs)
    /\ 2 * Cardinality({k \in 1..Len(xs) : RLe(stats.median_price_per_sqm, xs[k])}) >= Len(xs)
    /\ Len(xs) = 2 => stats.median_price_per_sqm = stats.avg_price_per_sqm
    /\ {xs[k] : k \in 1..Len(xs)} = {RInt(100), RInt(200)} /\ Len(xs) = 2 =>
          /\ stats.avg_price_per_sqm = RInt(150)
          /\ stats.median_price_per_sqm = RInt(150)
          /\ stats.min_price_per_sqm = RInt(100)
          /\ stats.max_price_per_sqm = RInt(200)
          /\ RLt(RInt(0), stats.variance)

\* C16: calculate_market_stats returns statistics for a segment key if and
\* only if at least 2 rows with a location, type and condition and positive
\* size and price fall under the key, once per key; the count is the number of
\* those rows and mean, median, min and max are those of their price-per-area
\* values (for {100, 200}: 150, 150, 100, 200, deviation above 0).
C16_StatsIffTwoListings ==
    mpc = "stats" =>
        /\ \A segment_key \in SegmentKeys :
              /\ Cardinality(Under(segment_key)) >= 2
                    <=> \E k \in 1..Len(market_stats) : market_stats[k].key = segment_key
              /\ \A k, m \in 1..Len(market_stats) :
                    (market_stats[k].key = segment_key /\ market_stats[m].key = segment_key)
                        => k = m
        /\ \A k \in 1..Len(market_stats) :
              /\ market_stats[k].key \in SegmentKeys
              /\ StatisticsOf(market_stats[k], ValuesUnder(market_stats[k].key))

\* The store holds a segment with the values 100 and 200, which has
\* statistics, and a segment of one listing, which has none.
C16_Witness ==
    /\ mpc = "stats"
    /\ \E k \in 1..Len(market_stats) :
          /\ market_stats[k].count = 2
          /\ market_stats[k].min_price_per_sqm = RInt(100)
          /\ market_stats[k].max_price_per_sqm = RInt(200)
    /\ \E segment_key \in SegmentKeys :
          /\ Cardinality(Under(segment_key)) = 1
          /\ \A k \in 1..Len(market_stats) : market_stats[k].key # segment_key

(***************************************************************************)
(* Claims about the insight and the score                                  *)
(***************************************************************************)
\* The segments with statistics that match the subject at fallback level (a):
\* same location, type and size interval, any condition.
LevelA ==
    {segment_key \in SegmentKeys :
        /\ Cardinality(Under(segment_key)) >= 2
        /\ segment_key[1] = subject.lokacio
        /\ segment_key[2] = subject.jelleg
        /\ segment_key[4] = GetSizeInterval(subject.meret)}

\* At level (b): same type, condition and size interval, a location with the
\* district token of the subject's.
LevelB ==
    {segment_key \in SegmentKeys :
        /\ Cardinality(Under(segment_key)) >= 2
        /\ segment_key[1] # None
        /\ District(segment_key[1].s) = District(subject.lokacio.s)
        /\ segment_key[2] = subject.jelleg
        /\ segment_key[3] = subject.allapot
        /\ segment_key[4] = GetSizeInterval(subject.meret)}

\* The mean of the values under the key.
MeanUnder(segment_key) ==
    RDiv(RSum(ValuesUnder(segment_key)), RInt(Len(ValuesUnder(segment_key))))

\* The subject has every field, a size in an interval, and its own segment
\* has no statistics.
ExactSegmentAbsent ==
    /\ CompleteData(subject)
    /\ GetSizeInterval(subject.meret) # 0
    /\ Cardinality(Under(SegmentKey(subject))) < 2

\* C17: when the exact segment is absent the insight comes from a level (a)
\* segment if one exists, from a level (b) segment only if no level (a)
\* segment exists, whatever the order of the rows, and there is no insight if
\* neither exists.
C17_FallbackInOrder ==
    (mpc = "insight" /\ ExactSegmentAbsent) =>
        /\ LevelA # {} =>
              /\ insight.found
              /\ insight.comparison_type = "same_location_type"
              /\ \E segment_key \in LevelA :
                    insight.market_avg_price_per_sqm = MeanUnder(segment_key)
        /\ (LevelA = {} /\ LevelB # {}) =>
              /\ insight.found
              /\ insight.comparison_type = "same_district_type"
              /\ \E segment_key \in LevelB :
                    insight.market_avg_price_per_sqm = MeanUnder(segment_key)
        /\ (LevelA = {} /\ LevelB = {}) => ~insight.found

\* C33: whenever a score is computed from a market insight, the segment the
\* insight was taken from has at least 2 listings, so the confidence
\* component is one of 5, 8, 12 and 15, never 2.
C33_ConfidenceNeverTwo ==
    (mpc = "score" /\ insight.found) =>
        /\ insight.market_sample_count >= 2
        /\ ConfidenceScore(insight.market_sample_count) \in {5, 8, 12, 15}

\* A listing was scored against a segment of exactly two listings, while
\* another segment of the store has one listing only.
C33_Witness ==
    /\ mpc = "score"
    /\ insight.found
    /\ score # None
    /\ insight.market_sample_count = 2
    /\ \E i \in Grouped(properties) :
          Cardinality(SegmentMembers(properties, SegmentKey(properties[i]))) = 1

\* C13: calculate_enhanced_worth_it_score returns None or a number from 0 to
\* 100, with an insight and on the fallback.
C13_ScoreWithinBounds ==
    mpc = "score" => (score = None \/ (0 <= score.n /\ score.n <= 100 * 100))

\* The market component the claim describes: 50 up to -20, the line through
\* 40 at -10, 30 at 0, 20 at +10 and 10 at +20, 0 above +20.
ConnectedComponent(pct) ==
    IF RLe(pct, RInt(-20)) THEN RInt(50)
    ELSE IF RLe(pct, RInt(20)) THEN RSub(RInt(30), pct)
    ELSE RInt(0)

\* The market component in two lines: 50 up to -20, 30 - d up to 0 (40 at -10,
\* 30 at 0), 20 - d above 0 up to +20 (10 at +10, 0 at +20), 0 above +20.
SteppedComponent(pct) ==
    IF RLe(pct, RInt(-20)) THEN RInt(50)
    ELSE IF RLe(pct, RInt(0)) THEN RSub(RInt(30), pct)
    ELSE IF RLe(pct, RInt(20)) THEN RSub(RInt(20), pct)
    ELSE RInt(0)

\* C14 (as claimed): the market component is the connected piecewise-linear
\* function through 50 at -20, 40 at -10, 30 at 0, 20 at +10 and 10 at +20,
\* 0 above +20, and lies in [0, 50].
C14_MarketConnected ==
    mpc = "market" =>
        /\ market_score = ConnectedComponent(price_diff_pct)
        /\ RLe(RInt(0), market_score) /\ RLe(market_score, RInt(50))

\* C14 (amended): the market component is 50 for d <= -20, 30 - d for
\* -20 < d <= 0, 20 - d for 0 < d <= +20 and 0 for d > +20: linear with slope
\* -1 on either side of 0, a drop of 10 just above 0, 10 at +10 and 0 at +20;
\* it lies in [0, 50].
C14_MarketSteppedAtZero ==
    mpc = "market" =>
        /\ market_score = SteppedComponent(price_diff_pct)
        /\ RLe(RInt(0), market_score) /\ RLe(market_score, RInt(50))

\* The component was computed for a deviation of 11.1 and is 8.9.
C14_Witness ==
    /\ mpc = "market"
    /\ price_diff_pct = Rat(111, 10)
    /\ market_score = Rat(89, 10)

\* The listing of the example: an apartment of 60 m2 at 30 M Ft with 2 rooms
\* in good condition.
ExampleListing ==
    /\ subject.jelleg = Str("lakás")
    /\ subject.allapot = Str("Jó")
    /\ subject.meret = Num(2 * 60)
    /\ subject.price = Num(30000)
    /\ subject.rooms = Num(2)

\* The listing of the example was scored against a segment of 6 with mean
\* 450 thousand Ft per m2.
ExampleScored ==
    /\ mpc = "score"
    /\ ExampleListing
    /\ insight.found
    /\ insight.market_avg_price_per_sqm = RInt(450)
    /\ insight.market_sample_count = 6

\* C15: the example listing against a segment with mean 450,000 and count 6
\* has a deviation of about 11.1 %, market component about 8.9, confidence 12,
\* condition 8, room-density component 20, size bonus 0 and the score 48.9.
C15_ScoringExample ==
    ExampleScored =>
        /\ RLt(Rat(1105, 100), insight.price_diff_pct)
        /\ RLt(insight.price_diff_pct, Rat(1115, 100))
        /\ RLt(Rat(885, 100), MarketScore(insight.price_diff_pct))
        /\ RLt(MarketScore(insight.price_diff_pct), Rat(895, 100))
        /\ ConfidenceScore(insight.market_sample_count) = 12
        /\ ConditionScore(subject.allapot) = 8
        /\ RoomScore(subject) = 20
        /\ SizeBonus(subject) = 0
        /\ score = Num(4890)

\* The example has been scored 48.9.
C15_Witness == ExampleScored /\ score = Num(4890)

(***************************************************************************)
(* One crawl: index pages, update filter, detail pool, batch write, log    *)
(***************************************************************************)
\* max_workers of the ThreadPoolExecutor of main.
MAX_WORKERS == 8

\* A listing element of an index page: its summary, or NoListing for an
\* element whose summary extraction raises.
PageItems == Listing \cup {NoListing}

\* What one index page may hold.
PageContents == UNION {[1..n -> PageItems] : n \in 0..MaxQueue}

\* What the store may hold when a crawl starts.
StoredBefore == {<<>>, <<[url |-> "u1", price_huf |-> "45 M", size |-> "50 m2"]>>}

\* What process_listing_details returns: the summary with the detail fields
\* of the listing page ("page") or with every detail field None ("none");
\* NoResult is None.
NoResult == [url |-> "", price_huf |-> "", size |-> "", details |-> "None"]

Normalized(listing_data, details) ==
    [url |-> listing_data.url, price_huf |-> listing_data.price_huf,
     size |-> listing_data.size, details |-> details]

NoTask == [listing |-> NoListing, state |-> "pending", outcome |-> "", result |-> NoResult,
           collected |-> FALSE]

\* existing_listings = {row[0]: (row[1], row[2]) for row in cursor.fetchall()}:
\* a later row of a URL replaces an earlier one.
ExistingListings(rows) ==
    [u \in {rows[i].url : i \in 1..Len(rows)} |->
        LET last == CHOOSE i \in 1..Len(rows) :
                        /\ rows[i].url = u
                        /\ \A j \in (i+1)..Len(rows) : rows[j].url # u
        IN  <<rows[last].price_huf, rows[last].size>>]

\* (mutant) only the price text is compared.
ListingNeedsUpdatePriceOnly(listing_data, existing) ==
    IF listing_data.url \notin DOMAIN existing THEN TRUE
    ELSE existing[listing_data.url][1] # listing_data.price_huf

\* listing_needs_update(listing_data, existing_listings)
ListingNeedsUpdate(listing_data, existing) ==
    IF listing_data.url \notin DOMAIN existing THEN TRUE
    ELSE LET existing_price == existing[listing_data.url][1]
             existing_size == existing[listing_data.url][2]
         IN  existing_price # listing_data.price_huf \/ existing_size # listing_data.size

\* None as the text of a summary whose element is missing.
NoText == "None"

\* '/uj-lakas/' in url
IsProject(url) == url \in {"/uj-lakas/p1"}

\* price_num for the price texts in which a number is found, in million Ft.
\* float() raises on "45 M Ft", `"M" in None` raises, and any other text of
\* the model holds no number.
PriceNum == ("45 M" :> 45) @@ ("50 M" :> 50)
PriceRaises(price_str) == price_str \in {NoText, "45 M Ft"}

\* size_num for the size texts in which re.search finds digits, in m2: the
\* first run of digits. re.search raises on None, and any other text of the
\* model holds no digit.
SizeNum == ("50 m2" :> 50) @@ ("60 m2" :> 60) @@ ("50,5 m2" :> 50)
SizeRaises(size_str) == size_str = NoText

\* The arguments main may be called with.
CrawlFilters == {NoFilters, [NoFilters EXCEPT !.ar_min = Str("50")]}

\* (mutant) a text that cannot be parsed discards the listing.
ShouldProcessListingStrict(listing_data, filters) ==
    /\ (Truthy(filters.ar_min) \/ Truthy(filters.ar_max))
          => /\ listing_data.price_huf \in DOMAIN PriceNum
             /\ Truthy(filters.ar_min) /\ CanFloat(filters.ar_min)
                   => 2 * PriceNum[listing_data.price_huf] >= Float(filters.ar_min)
             /\ Truthy(filters.ar_max) /\ CanFloat(filters.ar_max)
                   => 2 * PriceNum[listing_data.price_huf] <= Float(filters.ar_max)
    /\ (Truthy(filters.meret_min) \/ Truthy(filters.meret_max))
          => /\ listing_data.size \in DOMAIN SizeNum
             /\ Truthy(filters.meret_min) /\ CanFloat(filters.meret_min)
                   => 2 * SizeNum[listing_data.size] >= Float(filters.meret_min)
             /\ Truthy(filters.meret_max) /\ CanFloat(filters.meret_max)
                   => 2 * SizeNum[listing_data.size] <= Float(filters.meret_max)

\* should_process_listing(listing_data, filters). In each of the two tests an
\* exception (a text or a bound that does not parse) ends that test only
\* (except (ValueError, TypeError): pass).
ShouldProcessListing(listing_data, filters) ==
    LET price_str == listing_data.price_huf
        size_str == listing_data.size
        PriceOutside ==
            IF ~(Truthy(filters.ar_min) \/ Truthy(filters.ar_max)) THEN FALSE
            ELSE IF PriceRaises(price_str) THEN FALSE
            ELSE IF price_str \notin DOMAIN PriceNum THEN FALSE
            ELSE IF Truthy(filters.ar_min) /\ ~CanFloat(filters.ar_min) THEN FALSE
            ELSE IF Truthy(filters.ar_min) /\ 2 * PriceNum[price_str] < Float(filters.ar_min)
                 THEN TRUE
            ELSE IF Truthy(filters.ar_max) /\ ~CanFloat(filters.ar_max) THEN FALSE
            ELSE Truthy(filters.ar_max) /\ 2 * PriceNum[price_str] > Float(filters.ar_max)
        SizeOutside ==
            IF ~(Truthy(filters.meret_min) \/ Truthy(filters.meret_max)) THEN FALSE
            ELSE IF SizeRaises(size_str) THEN FALSE
            ELSE IF size_str \notin DOMAIN SizeNum THEN FALSE
            ELSE IF Truthy(filters.meret_min) /\ ~CanFloat(filters.meret_min) THEN FALSE
            ELSE IF Truthy(filters.meret_min) /\ 2 * SizeNum[size_str] < Float(filters.meret_min)
                 THEN TRUE
            ELSE IF Truthy(filters.meret_max) /\ ~CanFloat(filters.meret_max) THEN FALSE
            ELSE Truthy(filters.meret_max) /\ 2 * SizeNum[size_str] > Float(filters.meret_max)
    IN  IF IsProject(listing_data.url) THEN TRUE
        ELSE IF PriceOutside THEN FALSE
        ELSE IF SizeOutside THEN FALSE
        ELSE TRUE

\* The summaries the loop over one page's elements appends: an element whose
\* extraction raises is skipped.
Extracted(content) == SelectSeq(content, LAMBDA item : item # NoListing)

CrawlStart ==
    /\ kpc = "idle"
    /\ reported_total = 0
    /\ number_of_pages = 0
    /\ page_no = 0
    /\ all_listings_to_process = <<>>
    /\ existing_listings = <<>>
    /\ futures = <<>>
    /\ processed_listings = <<>>
    /\ collected_from = <<>>
    /\ abort_cause = "none"

\* The store holds rows of earlier crawls when this one starts, and the
\* handler has called main with crawl_args.
CrawlInit ==
    /\ tableExists \in BOOLEAN
    /\ listings \in (IF tableExists THEN StoredBefore ELSE {<<>>})
    /\ txn = <<>>
    /\ batch = <<>>
    /\ bpos = 1
    /\ wstate = "idle"
    /\ outcome = "none"
    /\ base = listings
    /\ lastUpsert = Upserted([u \in Urls |-> NoListing], listings)
    /\ search_log = <<>>
    /\ hpc = "crawl"
    /\ request = NoRequest
    /\ should_scrape_new = TRUE
    /\ compatible_filters = NoFilters
    /\ crawl_args \in CrawlFilters
    /\ CrawlStart

\* Summaries an index page may show: of a listing and of a project page, with
\* price and size texts that parse, that do not, or that are missing.
FilterSummaries ==
    [url : {"u1", "/uj-lakas/p1"},
     price_huf : {"45 M", "50 M", "45 M Ft", "ár nélkül", NoText},
     size : {"50 m2", "60 m2", "50,5 m2", NoText},
     rooms : {"2", "3"}]

\* Price and size bounds main may be called with, "abc" for one float() rejects.
FilterArgs ==
    {[NoFilters EXCEPT !.ar_min = a, !.ar_max = b, !.meret_min = c, !.meret_max = d] :
        a \in {None, Str("50"), Str("abc")}, b \in {None, Str("40")},
        c \in {None, Str("60")}, d \in {None, Str("50"), Str("abc")}}

\* Stores the crawl may find: empty, the listing, the project page, the
\* listing stored twice with two prices.
FilterStores ==
    { <<>>,
      <<[url |-> "u1", price_huf |-> "45 M", size |-> "50 m2"]>>,
      <<[url |-> "/uj-lakas/p1", price_huf |-> "45 M", size |-> "50 m2"]>>,
      <<[url |-> "u1", price_huf |-> "45 M", size |-> "50 m2"],
        [url |-> "u1", price_huf |-> "50 M", size |-> "50 m2"]>> }

\* main after its page loop has collected one summary from the only page.
FilterInit ==
    /\ tableExists = TRUE
    /\ listings \in FilterStores
    /\ txn = <<>>
    /\ batch = <<>>
    /\ bpos = 1
    /\ wstate = "idle"
    /\ outcome = "none"
    /\ base = listings
    /\ lastUpsert = Upserted([u \in Urls |-> NoListing], listings)
    /\ search_log = <<>>
    /\ hpc = "crawl"
    /\ request = NoRequest
    /\ should_scrape_new = TRUE
    /\ compatible_filters = NoFilters
    /\ crawl_args \in FilterArgs
    /\ kpc = "collect"
    /\ reported_total = 1
    /\ number_of_pages = 1
    /\ page_no = 2
    /\ all_listings_to_process \in {<<summary>> : summary \in FilterSummaries}
    /\ existing_listings = ExistingListings(listings)
    /\ futures = <<>>
    /\ processed_listings = <<>>
    /\ collected_from = <<>>
    /\ abort_cause = "none"

\* main up to the first request: create_table, the SELECT of the existing rows.
MainBegin ==
    /\ kpc = "idle"
    /\ tableExists' = TRUE
    /\ existing_listings' = ExistingListings(listings)
    /\ kpc' = "first"
    /\ UNCHANGED <<listings, batch, outcome, base, lastUpsert, search_log>>
    /\ UNCHANGED <<number_of_pages, reported_total, page_no, all_listings_to_process, futures,
                   processed_listings, collected_from, abort_cause>>
    /\ UNCHANGED notCrawl

\* int(int(total) / 12) + 1
NumberOfPages(total) == (total \div 12) + 1

\* Result totals the portal may report: around the multiples of 12, as far as
\* MaxPages pages reach.
ResultTotals ==
    {total \in {0, 1, 11, 12, 13, 23, 24, 25, 35, 36} : NumberOfPages(total) <= MaxPages}

\* Page 1 is fetched and the result count is read from it.
FirstPage(total) ==
    /\ kpc = "first"
    /\ reported_total' = total
    /\ number_of_pages' = NumberOfPages(total)
    /\ page_no' = 1
    /\ all_listings_to_process' = <<>>
    /\ kpc' = "collect"
    /\ UNCHANGED <<tableExists, listings, batch, outcome, base, lastUpsert, search_log>>
    /\ UNCHANGED <<existing_listings, futures, processed_listings, collected_from,
                   abort_cause>>
    /\ UNCHANGED notCrawl

\* session.get raises or the count is not found: nothing in main catches it.
FirstPageFails ==
    /\ kpc = "first"
    /\ kpc' = "aborted"
    /\ abort_cause' = "page"
    /\ UNCHANGED <<tableExists, listings, batch, outcome, base, lastUpsert, search_log>>
    /\ UNCHANGED <<number_of_pages, reported_total, page_no, all_listings_to_process, existing_listings,
                   futures, processed_listings, collected_from>>
    /\ UNCHANGED notCrawl

\* One turn of the page loop: the page is fetched and parsed, and the summary
\* of each element is extracted inside its own try.
CollectPage(content) ==
    /\ kpc = "collect"
    /\ page_no <= number_of_pages
    /\ Len(all_listings_to_process) + Len(Extracted(content)) <= MaxQueue
    /\ all_listings_to_process' = all_listings_to_process \o Extracted(content)
    /\ page_no' = page_no + 1
    /\ UNCHANGED <<tableExists, listings, batch, outcome, base, lastUpsert, search_log>>
    /\ UNCHANGED <<kpc, number_of_pages, reported_total, existing_listings, futures, processed_listings,
                   collected_from, abort_cause>>
    /\ UNCHANGED notCrawl

\* session.get of a page of the loop raises: nothing in main catches it.
CollectPageFails ==
    /\ kpc = "collect"
    /\ page_no <= number_of_pages
    /\ kpc' = "aborted"
    /\ abort_cause' = "page"
    /\ UNCHANGED <<tableExists, listings, batch, outcome, base, lastUpsert, search_log>>
    /\ UNCHANGED <<number_of_pages, reported_total, page_no, all_listings_to_process, existing_listings,
                   futures, processed_listings, collected_from>>
    /\ UNCHANGED notCrawl

\* The listing the i-th task of a pool of many tasks is about.
QueuedListing(i) ==
    [url |-> IF i % 2 = 1 THEN "u1" ELSE "u2", price_huf |-> "50 M", size |-> "50 m2"]

\* main has reached the executor with n listings to process, all of one index
\* page, none of them stored before: every one of them has been submitted.
PoolInit ==
    /\ \E n \in 0..MaxTasks :
          /\ reported_total = n
          /\ number_of_pages = NumberOfPages(n)
          /\ page_no = NumberOfPages(n) + 1
          /\ all_listings_to_process = [i \in 1..n |-> QueuedListing(i)]
          /\ futures = [i \in 1..n |-> [NoTask EXCEPT !.listing = QueuedListing(i)]]
    /\ kpc = "pool"
    /\ existing_listings = <<>>
    /\ processed_listings = <<>>
    /\ collected_from = <<>>
    /\ abort_cause = "none"

\* After the last page: the two filters, then every filtered listing is
\* submitted to the pool.
Submit ==
    /\ kpc = "collect"
    /\ page_no > number_of_pages
    /\ LET update_needed_listings ==
               SelectSeq(all_listings_to_process,
                         LAMBDA l : ListingNeedsUpdate(l, existing_listings))
           filtered_listings ==
               SelectSeq(update_needed_listings,
                         LAMBDA l : ShouldProcessListing(l, crawl_args))
       IN  futures' = [i \in 1..Len(filtered_listings) |->
                          [NoTask EXCEPT !.listing = filtered_listings[i]]]
    /\ processed_listings' = <<>>
    /\ kpc' = "pool"
    /\ UNCHANGED <<tableExists, listings, batch, outcome, base, lastUpsert, search_log>>
    /\ UNCHANGED <<number_of_pages, reported_total, page_no, all_listings_to_process, existing_listings,
                   collected_from, abort_cause>>
    /\ UNCHANGED notCrawl

Running == {i \in 1..Len(futures) : futures[i].state = "running"}

PoolStep(i, task) ==
    /\ futures' = [futures EXCEPT ![i] = task]
    /\ UNCHANGED <<tableExists, listings, batch, outcome, base, lastUpsert, search_log>>
    /\ UNCHANGED <<kpc, number_of_pages, reported_total, page_no, all_listings_to_process,
                   existing_listings, processed_listings, collected_from, abort_cause>>
    /\ UNCHANGED notCrawl

\* (mutant) a task starts whether or not a worker is free.
TaskStartUnbounded(i) ==
    /\ kpc = "pool"
    /\ futures[i].state = "pending"
    /\ \A j \in 1..(i - 1) : futures[j].state # "pending"
    /\ PoolStep(i, [futures[i] EXCEPT !.state = "running"])

\* ThreadPoolExecutor(max_workers=max_workers): a free worker takes the task
\* at the head of the executor's work queue, which holds the submitted tasks
\* in the order of submission.
TaskStart(i) ==
    /\ kpc = "pool"
    /\ futures[i].state = "pending"
    /\ \A j \in 1..(i - 1) : futures[j].state # "pending"
    /\ Cardinality(Running) < MAX_WORKERS
    /\ PoolStep(i, [futures[i] EXCEPT !.state = "running"])

\* process_listing_details got the details (from the portal or the cache) and
\* returns the normalized listing.
TaskDetails(i) ==
    /\ kpc = "pool"
    /\ futures[i].state = "running"
    /\ PoolStep(i, [futures[i] EXCEPT !.state = "finished", !.outcome = "details",
                        !.result = Normalized(futures[i].listing, "page")])

\* The request of the listing page raises inside get_listing_details, which
\* catches it and returns {}: process_listing_details goes on and returns the
\* normalized summary.
TaskFetchFails(i) ==
    /\ kpc = "pool"
    /\ futures[i].state = "running"
    /\ PoolStep(i, [futures[i] EXCEPT !.state = "finished", !.outcome = "fetch_failed",
                        !.result = Normalized(futures[i].listing, "none")])

\* Something else raises inside process_listing_details, which catches it and
\* returns None.
TaskRaises(i) ==
    /\ kpc = "pool"
    /\ futures[i].state = "running"
    /\ PoolStep(i, [futures[i] EXCEPT !.state = "finished", !.outcome = "raised",
                        !.result = NoResult])

\* One turn of the as_completed loop: a finished future is taken, and its
\* result is appended when it is truthy.
Collect(i) ==
    /\ kpc = "pool"
    /\ futures[i].state = "finished"
    /\ ~futures[i].collected
    /\ futures' = [futures EXCEPT ![i].collected = TRUE]
    /\ IF futures[i].result # NoResult
       THEN /\ processed_listings' = Append(processed_listings, futures[i].result)
            /\ collected_from' = Append(collected_from, i)
       ELSE UNCHANGED <<processed_listings, collected_from>>
    /\ UNCHANGED <<tableExists, listings, batch, outcome, base, lastUpsert, search_log>>
    /\ UNCHANGED <<kpc, number_of_pages, reported_total, page_no, all_listings_to_process,
                   existing_listings, abort_cause>>
    /\ UNCHANGED notCrawl

\* (mutant) the loop ends at the first future that raised.
PoolExitOnError ==
    /\ kpc = "pool"
    /\ \/ \A i \in 1..Len(futures) : futures[i].collected
       \/ \E i \in 1..Len(futures) : futures[i].collected /\ futures[i].outcome = "raised"
    /\ kpc' = "write"
    /\ UNCHANGED <<tableExists, listings, batch, outcome, base, lastUpsert, search_log>>
    /\ UNCHANGED <<number_of_pages, reported_total, page_no, all_listings_to_process, existing_listings,
                   futures, processed_listings, collected_from, abort_cause>>
    /\ UNCHANGED notCrawl

\* as_completed has yielded every future: the with block ends.
PoolExit ==
    /\ kpc = "pool"
    /\ \A i \in 1..Len(futures) : futures[i].collected
    /\ kpc' = "write"
    /\ UNCHANGED <<tableExists, listings, batch, outcome, base, lastUpsert, search_log>>
    /\ UNCHANGED <<number_of_pages, reported_total, page_no, all_listings_to_process, existing_listings,
                   futures, processed_listings, collected_from, abort_cause>>
    /\ UNCHANGED notCrawl

\* if processed_listings: batch_upsert_listings(conn, processed_listings),
\* which commits every listing of the batch.
WriteBatch ==
    /\ kpc = "write"
    /\ IF processed_listings # <<>>
       THEN /\ batch' = processed_listings
            /\ base' = listings
            /\ listings' = BatchUpsert(listings, processed_listings)
            /\ outcome' = "committed"
            /\ lastUpsert' = Upserted(lastUpsert, AllValues(processed_listings))
       ELSE UNCHANGED <<listings, batch, outcome, base, lastUpsert>>
    /\ kpc' = "log"
    /\ UNCHANGED <<tableExists, search_log>>
    /\ UNCHANGED <<number_of_pages, reported_total, page_no, all_listings_to_process, existing_listings,
                   futures, processed_listings, collected_from, abort_cause>>
    /\ UNCHANGED notCrawl

\* executemany or commit raises out of batch_upsert_listings: nothing is
\* committed and main ends there.
WriteBatchFails ==
    /\ kpc = "write"
    /\ processed_listings # <<>>
    /\ batch' = processed_listings
    /\ base' = listings
    /\ outcome' = "failed"
    /\ kpc' = "aborted"
    /\ abort_cause' = "write"
    /\ UNCHANGED <<tableExists, listings, lastUpsert, search_log>>
    /\ UNCHANGED <<number_of_pages, reported_total, page_no, all_listings_to_process, existing_listings,
                   futures, processed_listings, collected_from>>
    /\ UNCHANGED notCrawl

\* (mutant) the record is appended wherever main is.
LogScrapeAnywhere ==
    /\ kpc \in {"pool", "write", "log", "aborted"}
    /\ search_log' = Append(search_log,
            [filters |-> JsonDumps(crawl_args), searched_at |-> now])
    /\ kpc' = "done"
    /\ UNCHANGED <<tableExists, listings, batch, outcome, base, lastUpsert>>
    /\ UNCHANGED <<number_of_pages, reported_total, page_no, all_listings_to_process,
                   existing_listings, futures, processed_listings, collected_from,
                   abort_cause>>
    /\ UNCHANGED notCrawl

\* scrape_logger.log_scrape with the arguments of main, then conn.close().
LogScrape ==
    /\ kpc = "log"
    /\ search_log' = Append(search_log,
            [filters |-> JsonDumps(crawl_args), searched_at |-> now])
    /\ kpc' = "done"
    /\ UNCHANGED <<tableExists, listings, batch, outcome, base, lastUpsert>>
    /\ UNCHANGED <<number_of_pages, reported_total, page_no, all_listings_to_process, existing_listings,
                   futures, processed_listings, collected_from, abort_cause>>
    /\ UNCHANGED notCrawl

(***************************************************************************)
(* Claims about the crawl                                                  *)
(***************************************************************************)
\* The with block of the pool has ended.
PoolReturned == kpc \in {"write", "log", "done"} \/ abort_cause = "write"

\* The tasks whose result the loop appended.
CollectedTasks == {collected_from[k] : k \in 1..Len(collected_from)}

RowsWith(rows, u) == SelectSeq(rows, LAMBDA row : row.url = u)

\* C19: a queued listing whose detail-page request failed yields no result:
\* it is not in the batch that is written, and the rows stored for its URL are
\* after the write what they were before it (unless another task of the same
\* URL returned a listing).
C19_FailedFetchYieldsNoResult ==
    \A i \in 1..Len(futures) :
        futures[i].outcome = "fetch_failed" =>
            /\ futures[i].result = NoResult
            /\ i \notin CollectedTasks
            /\ (/\ kpc \in {"log", "done"}
                /\ \A j \in CollectedTasks :
                      j # i => futures[j].listing.url # futures[i].listing.url)
               => RowsWith(listings, futures[i].listing.url)
                      = RowsWith(base, futures[i].listing.url)

\* C20: a failure while an index page or a listing summary is fetched or
\* parsed never aborts the crawl.
C20_UnitFailureNeverAborts == ~(kpc = "aborted" /\ abort_cause = "page")

\* ceil(total / 12)
Ceil12(total) == IF total % 12 = 0 THEN total \div 12 ELSE total \div 12 + 1

\* C22: the number of index pages the crawl iterates over is ceil(n / 12) for
\* the reported result total n.
C22_PagesAreCeiling ==
    kpc \notin {"idle", "first"} => number_of_pages = Ceil12(reported_total)

\* C26: the batch write starts only after every submitted task has ended; the
\* record of the crawl's filters is appended only after the batch write has
\* committed (no write is made for an empty batch); a crawl that aborts
\* appends no record.
C26_PoolThenWriteThenLog ==
    /\ (kpc \in {"log", "done"} \/ outcome # "none")
          => \A i \in 1..Len(futures) : futures[i].state = "finished" /\ futures[i].collected
    /\ search_log # <<>>
          => /\ kpc = "done"
             /\ search_log = <<[filters |-> JsonDumps(crawl_args), searched_at |-> now]>>
             /\ processed_listings # <<>>
                   => outcome = "committed" /\ listings = BatchUpsert(base, processed_listings)
    /\ kpc = "aborted" => search_log = <<>>
    /\ kpc = "done" => Len(search_log) = 1

\* A crawl of two tasks has written its batch and appended its record.
C26_Witness ==
    /\ kpc = "done"
    /\ Len(futures) = 2
    /\ outcome = "committed"
    /\ Len(search_log) = 1

Queued(listing_data) == \E i \in 1..Len(futures) : futures[i].listing = listing_data

\* The urls present in the table.
StoredUrls(rows) == {rows[i].url : i \in 1..Len(rows)}

Seen == IF kpc = "pool" THEN {all_listings_to_process[k] : k \in 1..Len(all_listings_to_process)}
        ELSE {}

\* C23: a listing with the project pattern in its url is queued in every
\* crawl that sees it, whatever the filters and whatever the store holds.
C23_ProjectAlwaysQueued ==
    \A listing_data \in Seen : IsProject(listing_data.url) => Queued(listing_data)

\* The url is stored, and the row stored last for it has the price and size
\* texts of the summary.
Unchanged(listing_data) ==
    \E i \in 1..Len(listings) :
        /\ listings[i].url = listing_data.url
        /\ \A j \in (i+1)..Len(listings) : listings[j].url # listing_data.url
        /\ listings[i].price_huf = listing_data.price_huf
        /\ listings[i].size = listing_data.size

\* C24: a listing that is not a project page is skipped as unchanged exactly
\* when its url is stored with the same price and size texts; otherwise it is
\* queued if the pre-filter keeps it. No other field of the summary matters.
C24_SkippedIffUnchanged ==
    \A listing_data \in Seen :
        ~IsProject(listing_data.url) =>
            /\ Unchanged(listing_data) => ~Queued(listing_data)
            /\ ~Unchanged(listing_data) /\ ShouldProcessListing(listing_data, crawl_args)
                  => Queued(listing_data)

\* A stored listing whose size text alone has changed is queued, and one whose
\* texts are as stored is not.
C24_Witness ==
    /\ kpc = "pool"
    /\ \E listing_data \in Seen :
          /\ listing_data.url = "u1"
          /\ listing_data.price_huf = "45 M"
          /\ listing_data.size = "60 m2"
          /\ listings = <<[url |-> "u1", price_huf |-> "45 M", size |-> "50 m2"]>>
          /\ Queued(listing_data)

\* The price text holds a number and lies strictly outside a price bound given.
PriceOutsideBound(listing_data, filters) ==
    /\ listing_data.price_huf \in DOMAIN PriceNum
    /\ \/ /\ Truthy(filters.ar_min) /\ CanFloat(filters.ar_min)
          /\ 2 * PriceNum[listing_data.price_huf] < Float(filters.ar_min)
       \/ /\ Truthy(filters.ar_max) /\ CanFloat(filters.ar_max)
          /\ 2 * PriceNum[listing_data.price_huf] > Float(filters.ar_max)

\* The size text holds a number and lies strictly outside a size bound given.
SizeOutsideBound(listing_data, filters) ==
    /\ listing_data.size \in DOMAIN SizeNum
    /\ \/ /\ Truthy(filters.meret_min) /\ CanFloat(filters.meret_min)
          /\ 2 * SizeNum[listing_data.size] < Float(filters.meret_min)
       \/ /\ Truthy(filters.meret_max) /\ CanFloat(filters.meret_max)
          /\ 2 * SizeNum[listing_data.size] > Float(filters.meret_max)

\* The listings the pre-filter was asked about.
PreFiltered == {listing_data \in Seen :
                   ~IsProject(listing_data.url) /\ ~Unchanged(listing_data)}

\* C25 as stated: the pre-filter discards a listing only when its parsed
\* price or size lies strictly outside a bound given, and a listing whose
\* price text or size text is missing or does not parse is kept.
C25_UnparsedAlwaysKept ==
    \A listing_data \in PreFiltered :
        /\ ~Queued(listing_data)
              => \/ PriceOutsideBound(listing_data, crawl_args)
                 \/ SizeOutsideBound(listing_data, crawl_args)
        /\ (\/ listing_data.price_huf \notin DOMAIN PriceNum
            \/ listing_data.size \notin DOMAIN SizeNum) => Queued(listing_data)

\* C25: the pre-filter discards a listing only when its parsed price or size
\* lies strictly outside a bound given; a text that is missing or does not
\* parse is never the reason (the other text is still tested), and a listing
\* with neither text parsed is kept.
C25_DiscardedOnlyOutsideBound ==
    \A listing_data \in PreFiltered :
        /\ ~Queued(listing_data)
              => \/ PriceOutsideBound(listing_data, crawl_args)
                 \/ SizeOutsideBound(listing_data, crawl_args)
        /\ (/\ listing_data.price_huf \notin DOMAIN PriceNum
            /\ listing_data.size \notin DOMAIN SizeNum) => Queued(listing_data)

\* A listing without a price text is kept under a price bound, its size
\* being inside the size bound.
C25_Witness ==
    /\ kpc = "pool"
    /\ \E listing_data \in PreFiltered :
          /\ listing_data.price_huf = NoText
          /\ listing_data.size = "60 m2"
          /\ crawl_args.ar_min = Str("50")
          /\ crawl_args.meret_min = Str("60")
          /\ Queued(listing_data)

(***************************************************************************)
(* The scoring pass over the store (worth_it_score.py)                     *)
(***************************************************************************)
\* The columns the pass adds, NULL until a pass writes them.
NoAnalysis == [score |-> None, insight |-> None, price_diff_pct |-> None,
               value_assessment |-> None]

\* The insight text of a row without market data (its double-acute o is
\* written o).
InsufficientMarketData == Str("Nincs elegendo piaci adat az összehasonlításhoz")

\* f"Piaci átlag: {market_avg_price_per_sqm:,.0f} Ft/m² ({market_sample_count}
\* ingatlan alapján)": the text with its two numbers.
InsightText(market_insight) ==
    [t |-> "str", s |-> "Piaci átlag",
     n |-> <<Round(market_insight.market_avg_price_per_sqm, 1),
             market_insight.market_sample_count>>]

\* update_values of the row.
UpdateValues(props, row) ==
    LET Updated(market_insight) ==
            IF market_insight.found
            THEN [score |-> CalculateEnhancedWorthItScore(props, row),
                  insight |-> InsightText(market_insight),
                  price_diff_pct |-> Num(market_insight.price_diff_pct),
                  value_assessment |-> Str(market_insight.value_assessment)]
            ELSE [score |-> SimpleScore(row),
                  insight |-> InsufficientMarketData,
                  price_diff_pct |-> None,
                  value_assessment |-> Str("Ismeretlen")]
    IN  Updated(GetPropertyMarketInsight(props, row))

\* UPDATE listings SET ... WHERE url = ?: every row of the url gets the values.
UpdateWhereUrl(urls, columns, url, values) ==
    [j \in 1..Len(columns) |-> IF urls[j] = url THEN values ELSE columns[j]]

\* The loop over rows from row i on.
RECURSIVE UpdateRows(_, _, _, _)
UpdateRows(props, urls, columns, i) ==
    IF i > Len(props) THEN columns
    ELSE UpdateRows(props, urls,
                    UpdateWhereUrl(urls, columns, urls[i], UpdateValues(props, props[i])),
                    i + 1)

\* Rows the pass may find: two apartments of one location in different
\* conditions and a row without condition.
PassRows ==
    { Row(Str("Budapest V. kerület, Belváros"), Str("lakás"), Str("Jó"), Num(120), Num(27000), Num(2)),
      Row(Str("Budapest V. kerület, Belváros"), Str("lakás"), Str("Átlagos"), Num(120), Num(24000), Num(2)),
      Row(Str("Budapest V. kerület, Belváros"), Str("lakás"), None, Num(120), Num(27000), Num(2)) }

PassStart ==
    /\ row_urls = <<>>
    /\ analysis = <<>>

\* Any store of up to MaxProps rows; the table has no key, so a url may be
\* stored more than once.
PassInit ==
    /\ properties \in UNION {[1..n -> PassRows] : n \in 0..MaxProps}
    /\ row_urls \in [1..Len(properties) -> Urls]
    /\ analysis = [j \in 1..Len(properties) |-> NoAnalysis]
    /\ subject = NoSubject
    /\ mpc = "ready"
    /\ market_stats = <<>>
    /\ insight = NoInsight
    /\ score = None
    /\ price_diff_pct = RInt(0)
    /\ market_score = RInt(0)

\* worth_it_score.main: every row is read, the rows are updated one after the
\* other, then the updates are committed.
ScoringPass ==
    /\ mpc = "ready"
    /\ analysis' = UpdateRows(properties, row_urls, analysis, 1)
    /\ mpc' = "passed"
    /\ UNCHANGED <<properties, subject, market_stats, insight, score, price_diff_pct,
                   market_score, row_urls>>
    /\ UNCHANGED notPass

(***************************************************************************)
(* Claims about the scoring pass                                           *)
(***************************************************************************)
\* C21: after the scoring pass every row for which no market insight can be
\* produced carries the 'insufficient market data' text, the 'unknown' label
\* and a null deviation, and every row with an insight carries an insight
\* text, a deviation and a label that are not null.
C21_EveryListingMarked ==
    mpc = "passed" =>
        \A j \in 1..Len(properties) :
            IF GetPropertyMarketInsight(properties, properties[j]).found
            THEN /\ analysis[j].insight.t # "none"
                 /\ analysis[j].price_diff_pct.t # "none"
                 /\ analysis[j].value_assessment.t # "none"
            ELSE /\ analysis[j].insight.t = "str"
                 /\ analysis[j].insight.s = InsufficientMarketData.s
                 /\ analysis[j].price_diff_pct.t = "none"
                 /\ analysis[j].value_assessment = Str("Ismeretlen")

(***************************************************************************)
(* Specifications                                                          *)
(***************************************************************************)
Init == StoreStart /\ CacheStart /\ LogStart /\ IvStart /\ ScoreStart /\ CrawlStart /\ PassStart

StoreNext ==
    \/ CreateTable
    \/ UpsertEmpty
    \/ \E b \in Batches : UpsertBegin(b)
    \/ ExecuteRow
    \/ ExecuteFail
    \/ Rollback
    \/ Commit

SpecStore == Init /\ [][StoreNext]_vars

CacheNext ==
    \/ Tick
    \/ \E c \in Crawls : StartCrawl(c)
    \/ \E c \in Crawls : ClearCutoff(c)
    \/ \E c \in Crawls : ClearAcquire(c)
    \/ \E c \in Crawls : ClearSweep(c)
    \/ \E c \in Crawls : ClearRelease(c)
    \/ \E c \in Crawls : \E q \in Queues : FetchIndex(c, q)
    \/ \E c \in Crawls : PoolDone(c)
    \/ \E w \in Workers : TakeTask(w)
    \/ \E w \in Workers : GetAcquire(w)
    \/ \E w \in Workers : GetLookup(w)
    \/ \E w \in Workers : GetRelease(w)
    \/ \E w \in Workers : \E text \in Bodies : Fetch(w, text)
    \/ \E w \in Workers : FetchFail(w)
    \/ \E w \in Workers : PutAcquire(w)
    \/ \E w \in Workers : PutStore(w)

SpecCache == Init /\ [][CacheNext]_vars

DedupNext ==
    \/ Tick
    \/ \E c \in Crawls : PoolDone(c)
    \/ \E w \in Workers : TakeTask(w)
    \/ \E w \in Workers : GetAcquire(w)
    \/ \E w \in Workers : GetLookup(w)
    \/ \E w \in Workers : GetRelease(w)
    \/ \E w \in Workers : \E text \in BodiesOrEmpty : Fetch(w, text)
    \/ \E w \in Workers : FetchFail(w)
    \/ \E w \in Workers : PutAcquire(w)
    \/ \E w \in Workers : PutStore(w)

InitDedup ==
    StoreStart /\ LogStart /\ IvStart /\ ScoreStart /\ CrawlStart /\ PassStart /\ DedupInit

SpecDedup == InitDedup /\ [][DedupNext]_vars

LogNext ==
    \/ \E filters \in Requests : Results(filters)
    \/ CrawlLogged
    \/ CrawlAborted
    \/ Respond
    \/ Wait

Spec == Init /\ [][LogNext]_vars

IvNext == ExpandCall

InitIntervals == StoreStart /\ CacheStart /\ LogStart /\ IvInit /\ ScoreStart /\ CrawlStart /\ PassStart

SpecIntervals == InitIntervals /\ [][IvNext]_vars

StatsNext == MarketStats

InitStats == StoreStart /\ CacheStart /\ LogStart /\ IvStart /\ StatsInit /\ CrawlStart /\ PassStart

SpecStats == InitStats /\ [][StatsNext]_vars

ScoreNext ==
    \/ Insight
    \/ Score

InitScore == StoreStart /\ CacheStart /\ LogStart /\ IvStart /\ ScoreInit /\ CrawlStart /\ PassStart

SpecScore == InitScore /\ [][ScoreNext]_vars

MarketNext == MarketComponent

InitMarket == StoreStart /\ CacheStart /\ LogStart /\ IvStart /\ MarketInit /\ CrawlStart /\ PassStart

SpecMarket == InitMarket /\ [][MarketNext]_vars

CrawlNext ==
    \/ MainBegin
    \/ \E total \in ResultTotals : FirstPage(total)
    \/ FirstPageFails
    \/ \E content \in PageContents : CollectPage(content)
    \/ CollectPageFails
    \/ Submit
    \/ \E i \in 1..Len(futures) :
          TaskStart(i) \/ TaskDetails(i) \/ TaskFetchFails(i) \/ TaskRaises(i) \/ Collect(i)
    \/ PoolExit
    \/ WriteBatch
    \/ WriteBatchFails
    \/ LogScrape

InitCrawl == CacheStart /\ IvStart /\ ScoreStart /\ CrawlInit /\ PassStart

SpecCrawl == InitCrawl /\ [][CrawlNext]_vars

PassNext == ScoringPass

InitPass == StoreStart /\ CacheStart /\ LogStart /\ IvStart /\ CrawlStart /\ PassInit

SpecPass == InitPass /\ [][PassNext]_vars

FilterNext == Submit

InitFilter == CacheStart /\ IvStart /\ ScoreStart /\ PassStart /\ FilterInit

SpecFilter == InitFilter /\ [][FilterNext]_vars

\* The tasks of one pool, from submission to their end. Every worker thread
\* keeps running and every call a task makes returns or raises, so a step of
\* the pool that stays possible is taken.
PoolNext == \E i \in 1..Len(futures) : TaskStart(i) \/ TaskDetails(i) \/ TaskRaises(i)

InitPool ==
    StoreStart /\ CacheStart /\ LogStart /\ IvStart /\ ScoreStart /\ PassStart /\ PoolInit

SpecPool == InitPool /\ [][PoolNext]_vars /\ WF_vars(PoolNext)

LookupNext == \E filters \in LookupRequests : Results(filters)

InitLookup ==
    StoreStart /\ CacheStart /\ IvStart /\ ScoreStart /\ CrawlStart /\ PassStart /\ LookupInit

SpecLookup == InitLookup /\ [][LookupNext]_vars
====
